---- MODULE Spec2Model ----
(***************************************************************************)
(* A model of tracing-microjson: the JsonWriter byte encoder, the          *)
(* JsonVisitor field recorder, the per-span field fragments kept by        *)
(* JsonLayer::on_new_span / on_record, and the line assembled and written  *)
(* by JsonLayer::on_event.  Buffers are sequences of bytes (0..255).       *)
(***************************************************************************)
EXTENDS Integers, Sequences, FiniteSets, TLC

(***************************************************************************)
(* Bounds of the model.                                                    *)
(***************************************************************************)
MaxDepth == 2
MaxRecords == 2
MaxEvents == 2
MaxStrLen == 2
MaxDays == 160000
NumThreads == 2
MaxFields == 2

(***************************************************************************)
(* Byte strings used by the code as literals.                              *)
(***************************************************************************)
K_timestamp == <<116, 105, 109, 101, 115, 116, 97, 109, 112>>
K_level == <<108, 101, 118, 101, 108>>
K_fields == <<102, 105, 101, 108, 100, 115>>
K_target == <<116, 97, 114, 103, 101, 116>>
K_filename == <<102, 105, 108, 101, 110, 97, 109, 101>>
K_line_number == <<108, 105, 110, 101, 95, 110, 117, 109, 98, 101, 114>>
K_threadId == <<116, 104, 114, 101, 97, 100, 73, 100>>
K_threadName == <<116, 104, 114, 101, 97, 100, 78, 97, 109, 101>>
K_span == <<115, 112, 97, 110>>
K_spans == <<115, 112, 97, 110, 115>>
K_name == <<110, 97, 109, 101>>

(* b"0123456789abcdef" *)
HEX == <<48, 49, 50, 51, 52, 53, 54, 55, 56, 57, 97, 98, 99, 100, 101, 102>>

(***************************************************************************)
(* writer.rs: escape_json_into.  `start` is the index of the first byte    *)
(* not yet flushed; indices are 1-based here (0-based in the code).        *)
(***************************************************************************)
\* mutant of FixedEscape: the quote has no arm
FixedEscape_quote_raw(b) ==
    CASE b = 92 -> <<92, 92>>
      [] b = 8  -> <<92, 98>>
      [] b = 12 -> <<92, 102>>
      [] b = 10 -> <<92, 110>>
      [] b = 13 -> <<92, 114>>
      [] b = 9  -> <<92, 116>>
      [] OTHER  -> <<>>

\* the fixed two-byte escape of byte b, or <<>> when the match arm is not one
\* of the seven fixed ones
FixedEscape(b) ==
    CASE b = 34 -> <<92, 34>>
      [] b = 92 -> <<92, 92>>
      [] b = 8  -> <<92, 98>>
      [] b = 12 -> <<92, 102>>
      [] b = 10 -> <<92, 110>>
      [] b = 13 -> <<92, 114>>
      [] b = 9  -> <<92, 116>>
      [] OTHER  -> <<>>

\* mutant of UnicodeEscape: the nibbles taken from "0123456789ABCDEF"
UnicodeEscape_upper(b) ==
    <<92, 117, 48, 48,
      <<48, 49, 50, 51, 52, 53, 54, 55, 56, 57, 65, 66, 67, 68, 69, 70>>[(b \div 16) + 1],
      <<48, 49, 50, 51, 52, 53, 54, 55, 56, 57, 65, 66, 67, 68, 69, 70>>[(b % 16) + 1]>>

\* the arm `b if b < 0x20`: \u00 and the two hex nibbles
UnicodeEscape(b) ==
    <<92, 117, 48, 48, HEX[(b \div 16) + 1], HEX[(b % 16) + 1]>>

RECURSIVE EscapeLoop(_, _, _, _)
EscapeLoop(bytes, i, start, buf) ==
    IF i > Len(bytes)
    THEN buf \o SubSeq(bytes, start, Len(bytes))
    ELSE LET b == bytes[i] IN
         IF FixedEscape(b) # <<>>
         THEN EscapeLoop(bytes, i + 1, i + 1,
                         buf \o SubSeq(bytes, start, i - 1) \o FixedEscape(b))
         ELSE IF b < 32
         THEN EscapeLoop(bytes, i + 1, i + 1,
                         buf \o SubSeq(bytes, start, i - 1) \o UnicodeEscape(b))
         ELSE EscapeLoop(bytes, i + 1, start, buf)

escape_json_into(s, buf) == EscapeLoop(s, 1, 1, buf)

(***************************************************************************)
(* writer.rs: JsonWriter.  The struct has the single field buf, so a       *)
(* writer is its byte sequence.                                            *)
(***************************************************************************)
JsonWriter_new == <<>>
\* mutant of JsonWriter_continuing: the buffer starts empty
JsonWriter_continuing_fresh(existing) == <<>>

JsonWriter_continuing(existing) == existing
obj_start(jw) == Append(jw, 123)
obj_end(jw) == Append(jw, 125)
arr_start(jw) == Append(jw, 91)
arr_end(jw) == Append(jw, 93)
key(jw, name) == (Append(jw, 34) \o name) \o <<34, 58>>
\* mutant of val_str: the string written as key writes a name
val_str_raw(jw, s) == Append(Append(jw, 34) \o s, 34)

val_str(jw, s) == Append(escape_json_into(s, Append(jw, 34)), 34)
comma(jw) == Append(jw, 44)
raw(jw, s) == jw \o s
\* mutant of finish_line: two line feeds
finish_line_twice(jw) == Append(Append(jw, 10), 10)

finish_line(jw) == Append(jw, 10)
val_bool(jw, v) == jw \o (IF v THEN <<116, 114, 117, 101>> ELSE <<102, 97, 108, 115, 101>>)
val_null(jw) == jw \o <<110, 117, 108, 108>>

\* Display of an unsigned integer: decimal digits, no leading zeros
RECURSIVE Decimal(_)
Decimal(n) == IF n < 10 THEN <<48 + n>> ELSE Append(Decimal(n \div 10), 48 + (n % 10))

val_u64(jw, v) == jw \o Decimal(v)
val_i64(jw, v) == jw \o (IF v < 0 THEN <<45>> \o Decimal(0 - v) ELSE Decimal(v))

\* An f64 is [class, neg, int, frac]: class is "nan", "inf" or "finite", neg
\* its sign bit, and, for a finite value, int its integral part and frac the
\* digits of its fractional part (none for a whole number, no trailing zero).
\* Display of an f64 writes NaN, inf, -inf, or the decimal expansion of the
\* value without an exponent: -0.0 is "-0", 1.0 is "1", 3.14 is "3.14".
DisplayF64(v) ==
    IF v.class = "nan" THEN <<78, 97, 78>>
    ELSE IF v.class = "inf"
    THEN (IF v.neg THEN <<45>> ELSE <<>>) \o <<105, 110, 102>>
    ELSE (IF v.neg THEN <<45>> ELSE <<>>) \o Decimal(v.int)
           \o (IF v.frac = <<>> THEN <<>> ELSE <<46>> \o [i \in 1..Len(v.frac) |-> 48 + v.frac[i]])

\* written.contains(&b)
Contains(written, b) == \E i \in 1..Len(written) : written[i] = b

\* mutant of val_f64: .0 appended whatever was written
val_f64_always_point(jw, v) ==
    IF v.class = "nan" \/ v.class = "inf"
    THEN val_null(jw)
    ELSE (jw \o DisplayF64(v)) \o <<46, 48>>

\* mutant of val_f64: only NaN is tested for
val_f64_nan_only(jw, v) ==
    IF v.class = "nan"
    THEN val_null(jw)
    ELSE LET start   == Len(jw)
             jw1     == jw \o DisplayF64(v)
             written == SubSeq(jw1, start + 1, Len(jw1))
         IN  IF ~Contains(written, 46) /\ ~Contains(written, 101) /\ ~Contains(written, 69)
             THEN jw1 \o <<46, 48>>
             ELSE jw1

val_f64(jw, v) ==
    IF v.class = "nan" \/ v.class = "inf"
    THEN val_null(jw)
    ELSE LET start   == Len(jw)
             jw1     == jw \o DisplayF64(v)
             written == SubSeq(jw1, start + 1, Len(jw1))
         IN  IF ~Contains(written, 46) /\ ~Contains(written, 101) /\ ~Contains(written, 69)
             THEN jw1 \o <<46, 48>>
             ELSE jw1

\* A u128 or i128 is [neg, limbs]: its sign and its magnitude in base 10000,
\* most significant limb first.  Debug of the integer is its decimal text.
RECURSIVE WideTail(_)
WideTail(limbs) ==
    IF limbs = <<>> THEN <<>>
    ELSE LET n == Head(limbs)
         IN  <<48 + (n \div 1000), 48 + ((n \div 100) % 10), 48 + ((n \div 10) % 10),
               48 + (n % 10)>> \o WideTail(Tail(limbs))

DebugWide(x) ==
    (IF x.neg THEN <<45>> ELSE <<>>) \o Decimal(Head(x.limbs)) \o WideTail(Tail(x.limbs))

\* mutant of JsonEscapingWriter_write_str: the write_str of JsonWriter
JsonEscapingWriter_write_str_raw(buf, s) == buf \o s

\* impl fmt::Write for JsonEscapingWriter
JsonEscapingWriter_write_str(buf, s) == escape_json_into(s, buf)

\* write!(JsonEscapingWriter { buf }, ..): the formatter hands the text to
\* write_str piece by piece
RECURSIVE WriteChunks(_, _)
WriteChunks(buf, chunks) ==
    IF chunks = <<>> THEN buf
    ELSE WriteChunks(JsonEscapingWriter_write_str(buf, Head(chunks)), Tail(chunks))

\* `chunks` are the pieces in which Debug (Display) of the value writes it
val_debug(jw, chunks) == Append(WriteChunks(Append(jw, 34), chunks), 34)
val_display(jw, chunks) == Append(WriteChunks(Append(jw, 34), chunks), 34)

\* lib.rs calls finish() / into_string() to take the buffer out of the writer
finish(jw) == jw
into_string(jw) == jw

(***************************************************************************)
(* visitor.rs: JsonVisitor.  A visitor is [writer, first]; each record_*   *)
(* method writes [comma] key value and clears `first`.  A field of a       *)
(* stream is [name, kind, text, num, flag]; kind selects the Visit method  *)
(* that tracing-core calls for the value.                                  *)
(***************************************************************************)
JsonVisitor_new(writer) == [writer |-> writer, first |-> TRUE]
JsonVisitor_continuing(writer) == [writer |-> writer, first |-> FALSE]

\* mutant of record_str: `first` left as it was
record_str_first_kept(v, field, value) ==
    LET w1 == IF ~v.first THEN comma(v.writer) ELSE v.writer
        w2 == key(w1, field)
    IN  [writer |-> val_str(w2, value), first |-> v.first]

record_str(v, field, value) ==
    LET w1 == IF ~v.first THEN comma(v.writer) ELSE v.writer
        w2 == key(w1, field)
    IN  [writer |-> val_str(w2, value), first |-> FALSE]

record_u64(v, field, value) ==
    LET w1 == IF ~v.first THEN comma(v.writer) ELSE v.writer
        w2 == key(w1, field)
    IN  [writer |-> val_u64(w2, value), first |-> FALSE]

record_i64(v, field, value) ==
    LET w1 == IF ~v.first THEN comma(v.writer) ELSE v.writer
        w2 == key(w1, field)
    IN  [writer |-> val_i64(w2, value), first |-> FALSE]

record_f64(v, field, value) ==
    LET w1 == IF ~v.first THEN comma(v.writer) ELSE v.writer
        w2 == key(w1, field)
    IN  [writer |-> val_f64(w2, value), first |-> FALSE]

record_bool(v, field, value) ==
    LET w1 == IF ~v.first THEN comma(v.writer) ELSE v.writer
        w2 == key(w1, field)
    IN  [writer |-> val_bool(w2, value), first |-> FALSE]

\* mutant of record_debug: the text written as it is, without quotes
record_debug_bare(v, field, value) ==
    LET w1 == IF ~v.first THEN comma(v.writer) ELSE v.writer
        w2 == key(w1, field)
    IN  [writer |-> raw(w2, value), first |-> FALSE]

\* value is the text that format!("{:?}", value) produces
record_debug(v, field, value) ==
    LET w1 == IF ~v.first THEN comma(v.writer) ELSE v.writer
        w2 == key(w1, field)
    IN  [writer |-> val_str(w2, value), first |-> FALSE]

\* value is the text that value.to_string() produces
record_error(v, field, value) ==
    LET w1 == IF ~v.first THEN comma(v.writer) ELSE v.writer
        w2 == key(w1, field)
    IN  [writer |-> val_str(w2, value), first |-> FALSE]

StrField(n, s) == [name |-> n, kind |-> "str", text |-> s, num |-> 0, flag |-> FALSE]
U64Field(n, x) == [name |-> n, kind |-> "u64", text |-> <<>>, num |-> x, flag |-> FALSE]
I64Field(n, x) == [name |-> n, kind |-> "i64", text |-> <<>>, num |-> x, flag |-> FALSE]
BoolField(n, b) == [name |-> n, kind |-> "bool", text |-> <<>>, num |-> 0, flag |-> b]
DebugField(n, s) == [name |-> n, kind |-> "debug", text |-> s, num |-> 0, flag |-> FALSE]
ErrorField(n, s) == [name |-> n, kind |-> "error", text |-> s, num |-> 0, flag |-> FALSE]

\* fields whose value is an f64 (num holds [class, neg, int, frac]) or a
\* u128 / i128 (num holds [neg, limbs])
F64Field(n, x) == [name |-> n, kind |-> "f64", text |-> <<>>, num |-> x, flag |-> FALSE]
U128Field(n, x) == [name |-> n, kind |-> "u128", text |-> <<>>, num |-> x, flag |-> FALSE]
I128Field(n, x) == [name |-> n, kind |-> "i128", text |-> <<>>, num |-> x, flag |-> FALSE]

\* Visit::record_u128 and Visit::record_i128 are not overridden: the trait's
\* default hands the value to record_debug
record_u128(v, field, value) == record_debug(v, field, DebugWide(value))
record_i128(v, field, value) == record_debug(v, field, DebugWide(value))

\* tracing-core hands one field to the Visit method of its value's type
VisitField(v, f) ==
    CASE f.kind = "str"   -> record_str(v, f.name, f.text)
      [] f.kind = "u64"   -> record_u64(v, f.name, f.num)
      [] f.kind = "i64"   -> record_i64(v, f.name, f.num)
      [] f.kind = "bool"  -> record_bool(v, f.name, f.flag)
      [] f.kind = "debug" -> record_debug(v, f.name, f.text)
      [] f.kind = "error" -> record_error(v, f.name, f.text)
      [] f.kind = "f64"   -> record_f64(v, f.name, f.num)
      [] f.kind = "u128"  -> record_u128(v, f.name, f.num)
      [] f.kind = "i128"  -> record_i128(v, f.name, f.num)

\* attrs.record(&mut visitor) / values.record(..) / event.record(..):
\* every field of the stream, in order
RECURSIVE RecordAll(_, _)
RecordAll(v, stream) ==
    IF stream = <<>> THEN v
    ELSE RecordAll(VisitField(v, Head(stream)), Tail(stream))

(***************************************************************************)
(* lib.rs: the timestamp.  An instant is [secs, micros] relative to the    *)
(* Unix epoch; secs < 0 stands for a clock before the epoch, for which     *)
(* duration_since fails and unwrap_or_default gives the zero duration.     *)
(***************************************************************************)
\* mutant of days_to_ymd: the century term doe / 36524 left out of yoe
days_to_ymd_no_century(days) ==
    LET z   == days + 719468
        era == z \div 146097
        doe == z % 146097
        yoe == (doe - (doe \div 1460) - (doe \div 146096)) \div 365
        y   == yoe + era * 400
        doy == doe - (365 * yoe + (yoe \div 4) - (yoe \div 100))
        mp  == (5 * doy + 2) \div 153
        d   == doy - ((153 * mp + 2) \div 5) + 1
        m   == IF mp < 10 THEN mp + 3 ELSE mp - 9
        y2  == IF m <= 2 THEN y + 1 ELSE y
    IN  <<y2, m, d>>

\* mutant of days_to_ymd: the day of the month counted from 0
days_to_ymd_day_from_zero(days) ==
    LET z   == days + 719468
        era == z \div 146097
        doe == z % 146097
        yoe == (doe - (doe \div 1460) + (doe \div 36524) - (doe \div 146096)) \div 365
        y   == yoe + era * 400
        doy == doe - (365 * yoe + (yoe \div 4) - (yoe \div 100))
        mp  == (5 * doy + 2) \div 153
        d   == doy - ((153 * mp + 2) \div 5)
        m   == IF mp < 10 THEN mp + 3 ELSE mp - 9
        y2  == IF m <= 2 THEN y + 1 ELSE y
    IN  <<y2, m, d>>

days_to_ymd(days) ==
    LET z   == days + 719468
        era == z \div 146097
        doe == z % 146097
        yoe == (doe - (doe \div 1460) + (doe \div 36524) - (doe \div 146096)) \div 365
        y   == yoe + era * 400
        doy == doe - (365 * yoe + (yoe \div 4) - (yoe \div 100))
        mp  == (5 * doy + 2) \div 153
        d   == doy - ((153 * mp + 2) \div 5) + 1
        m   == IF mp < 10 THEN mp + 3 ELSE mp - 9
        y2  == IF m <= 2 THEN y + 1 ELSE y
    IN  <<y2, m, d>>

\* the u64 subtractions days_to_ymd evaluates for `days`, in the order it
\* evaluates them, each as <<minuend, subtrahend>>: two in yoe, two in doy,
\* one in d, and mp - 9 when mp >= 10
days_to_ymd_subtractions(days) ==
    LET z   == days + 719468
        doe == z % 146097
        yoe == (doe - (doe \div 1460) + (doe \div 36524) - (doe \div 146096)) \div 365
        doy == doe - (365 * yoe + (yoe \div 4) - (yoe \div 100))
        mp  == (5 * doy + 2) \div 153
    IN  << <<doe, doe \div 1460>>,
           <<doe - (doe \div 1460) + (doe \div 36524), doe \div 146096>>,
           <<365 * yoe + (yoe \div 4), yoe \div 100>>,
           <<doe, 365 * yoe + (yoe \div 4) - (yoe \div 100)>>,
           <<doy, (153 * mp + 2) \div 5>> >>
        \o (IF mp < 10 THEN <<>> ELSE << <<mp, 9>> >>)

secs_to_datetime(secs) ==
    LET sec   == secs % 60
        mins  == secs \div 60
        min   == mins % 60
        hours == mins \div 60
        hour  == hours % 24
        days  == hours \div 24
        ymd   == days_to_ymd(days)
    IN  <<ymd[1], ymd[2], ymd[3], hour, min, sec>>

\* format!("{:0w}", n): decimal text, zero-padded on the left to width w
RECURSIVE ZeroPad(_, _)
ZeroPad(digits, w) == IF Len(digits) >= w THEN digits ELSE ZeroPad(<<48>> \o digits, w)

\* mutant of PadDecimal: the number written without padding
PadDecimal_unpadded(n, w) == Decimal(n)

PadDecimal(n, w) == ZeroPad(Decimal(n), w)

format_timestamp(t) ==
    LET secs   == IF t.secs < 0 THEN 0 ELSE t.secs
        micros == IF t.secs < 0 THEN 0 ELSE t.micros
        dt     == secs_to_datetime(secs)
    IN  PadDecimal(dt[1], 4) \o <<45>> \o PadDecimal(dt[2], 2) \o <<45>>
          \o PadDecimal(dt[3], 2) \o <<84>> \o PadDecimal(dt[4], 2) \o <<58>>
          \o PadDecimal(dt[5], 2) \o <<58>> \o PadDecimal(dt[6], 2) \o <<46>>
          \o PadDecimal(micros, 6) \o <<90>>

(***************************************************************************)
(* lib.rs: JsonLayer::on_event, section by section.  An event is           *)
(* [level, target, file, line, fields]; file and line are Options          *)
(* ([some, v]) of the callsite metadata.  A span of the scope is           *)
(* [name, fields], fields being the bytes of its SpanFields extension.     *)
(***************************************************************************)
Some(x) == [some |-> TRUE, v |-> x]
NoFile == [some |-> FALSE, v |-> <<>>]
NoLine == [some |-> FALSE, v |-> 0]

RECURSIVE Reverse(_)
Reverse(q) == IF q = <<>> THEN <<>> ELSE Append(Reverse(Tail(q)), Head(q))

WriteTimestamp(jw, now) == val_str(key(jw, K_timestamp), format_timestamp(now))

\* the clock of the layer: a disabled clock writes no member, and the comma
\* that joins `level` to it goes with it
TimestampSection(timer, jw, now) ==
    IF timer THEN comma(WriteTimestamp(jw, now)) ELSE jw

LevelSection(jw, event) == val_str(key(jw, K_level), event.level)

\* mutants of FieldsSection: the flattened fields recorded by a fresh visitor,
\* and the flatten option ignored
FieldsSection_fresh(flatten, jw, event) ==
    IF flatten
    THEN RecordAll(JsonVisitor_new(jw), event.fields).writer
    ELSE LET jw1 == obj_start(key(comma(jw), K_fields))
         IN  obj_end(RecordAll(JsonVisitor_new(jw1), event.fields).writer)

FieldsSection_nested(flatten, jw, event) ==
    LET jw1 == obj_start(key(comma(jw), K_fields))
    IN  obj_end(RecordAll(JsonVisitor_new(jw1), event.fields).writer)

FieldsSection(flatten, jw, event) ==
    IF flatten
    THEN RecordAll(JsonVisitor_continuing(jw), event.fields).writer
    ELSE LET jw1 == obj_start(key(comma(jw), K_fields))
         IN  obj_end(RecordAll(JsonVisitor_new(jw1), event.fields).writer)

TargetSection(display, jw, event) ==
    IF display THEN val_str(key(comma(jw), K_target), event.target) ELSE jw

FilenameSection(display, jw, event) ==
    IF display /\ event.file.some
    THEN val_str(key(comma(jw), K_filename), event.file.v)
    ELSE jw

LineNumberSection(display, jw, event) ==
    IF display /\ event.line.some
    THEN val_u64(key(comma(jw), K_line_number), event.line.v)
    ELSE jw

\* the current thread is [id, name]; its id is written as Debug does,
\* ThreadId(N)
ThreadIdText(thread) == <<84, 104, 114, 101, 97, 100, 73, 100, 40>> \o Decimal(thread.id) \o <<41>>

ThreadIdSection(display, jw, thread) ==
    IF display THEN val_str(key(comma(jw), K_threadId), ThreadIdText(thread)) ELSE jw

ThreadNameSection(display, jw, thread) ==
    IF display THEN val_str(key(comma(jw), K_threadName), thread.name) ELSE jw

\* "span": the first span of the collected scope (the innermost)
WriteSpan(jw, spans) ==
    IF spans # <<>>
    THEN LET leaf == spans[1]
             jw1  == val_str(key(obj_start(key(comma(jw), K_span)), K_name), leaf.name)
             jw2  == IF leaf.fields # <<>> THEN raw(comma(jw1), leaf.fields) ELSE jw1
         IN  obj_end(jw2)
    ELSE jw

\* mutant of WriteSpansElement: the comma written whether or not the
\* fragment is empty
WriteSpansElement_always_comma(jw, i, span) ==
    LET jw0 == IF i > 0 THEN comma(jw) ELSE jw
        jw1 == val_str(key(obj_start(jw0), K_name), span.name)
    IN  obj_end(raw(comma(jw1), span.fields))

\* one element of "spans"; i is the 0-based position in the reversed scope
WriteSpansElement(jw, i, span) ==
    LET jw0 == IF i > 0 THEN comma(jw) ELSE jw
        jw1 == val_str(key(obj_start(jw0), K_name), span.name)
        jw2 == IF span.fields # <<>> THEN raw(comma(jw1), span.fields) ELSE jw1
    IN  obj_end(jw2)

RECURSIVE WriteSpansLoop(_, _, _)
WriteSpansLoop(jw, i, rev) ==
    IF i >= Len(rev) THEN jw
    ELSE WriteSpansLoop(WriteSpansElement(jw, i, rev[i + 1]), i + 1, rev)

\* mutant of WriteSpans: the scope written as collected, innermost first
WriteSpans_unreversed(jw, spans) ==
    arr_end(WriteSpansLoop(arr_start(key(comma(jw), K_spans)), 0, spans))

\* "spans": every span of the scope, root first
WriteSpans(jw, spans) ==
    arr_end(WriteSpansLoop(arr_start(key(comma(jw), K_spans)), 0, Reverse(spans)))

\* mutant of ScopeSection: "spans" written whether or not there is a scope
ScopeSection_always(jw, scope) == WriteSpans(WriteSpan(jw, scope.v), scope.v)

\* scope is the Option ctx.event_scope(event) gives; its iterator runs from
\* the innermost span to the root
ScopeSection(jw, scope) ==
    IF scope.some THEN WriteSpans(WriteSpan(jw, scope.v), scope.v) ELSE jw

\* The statements of a handler run in order: InOrder(q) holds once every
\* intermediate buffer listed in q has been computed, first to last.
InOrder(q) == \A i \in 1..Len(q) : q[i] = q[i]

\* mutant of EventLine: filename and line_number written before target
EventLine_swapped(l, event, now, thread, scope) ==
    LET jw0 == obj_start(JsonWriter_new)
        jw1 == TimestampSection(l.timer, jw0, now)
        jw2 == LevelSection(jw1, event)
        jw3 == FieldsSection(l.flatten_event, jw2, event)
        jw4 == FilenameSection(l.display_filename, jw3, event)
        jw5 == LineNumberSection(l.display_line_number, jw4, event)
        jw6 == TargetSection(l.display_target, jw5, event)
        jw7 == ThreadIdSection(l.display_thread_id, jw6, thread)
        jw8 == ThreadNameSection(l.display_thread_name, jw7, thread)
        jw9 == ScopeSection(jw8, scope)
    IN  IF InOrder(<<jw0, jw1, jw2, jw3, jw4, jw5, jw6, jw7, jw8, jw9>>)
        THEN into_string(finish_line(obj_end(jw9)))
        ELSE <<>>

\* mutant of EventLine: level written first, the timestamp after it
EventLine_level_first(l, event, now, thread, scope) ==
    LET jw0 == obj_start(JsonWriter_new)
        jw1 == LevelSection(jw0, event)
        jw2 == IF l.timer THEN WriteTimestamp(comma(jw1), now) ELSE jw1
        jw3 == FieldsSection(l.flatten_event, jw2, event)
        jw4 == TargetSection(l.display_target, jw3, event)
        jw5 == FilenameSection(l.display_filename, jw4, event)
        jw6 == LineNumberSection(l.display_line_number, jw5, event)
        jw7 == ThreadIdSection(l.display_thread_id, jw6, thread)
        jw8 == ThreadNameSection(l.display_thread_name, jw7, thread)
        jw9 == ScopeSection(jw8, scope)
    IN  IF InOrder(<<jw0, jw1, jw2, jw3, jw4, jw5, jw6, jw7, jw8, jw9>>)
        THEN into_string(finish_line(obj_end(jw9)))
        ELSE <<>>

\* the line on_event builds, up to and including finish_line
EventLine(l, event, now, thread, scope) ==
    LET jw0 == obj_start(JsonWriter_new)
        jw1 == TimestampSection(l.timer, jw0, now)
        jw2 == LevelSection(jw1, event)
        jw3 == FieldsSection(l.flatten_event, jw2, event)
        jw4 == TargetSection(l.display_target, jw3, event)
        jw5 == FilenameSection(l.display_filename, jw4, event)
        jw6 == LineNumberSection(l.display_line_number, jw5, event)
        jw7 == ThreadIdSection(l.display_thread_id, jw6, thread)
        jw8 == ThreadNameSection(l.display_thread_name, jw7, thread)
        jw9 == ScopeSection(jw8, scope)
    IN  IF InOrder(<<jw0, jw1, jw2, jw3, jw4, jw5, jw6, jw7, jw8, jw9>>)
        THEN into_string(finish_line(obj_end(jw9)))
        ELSE <<>>

(***************************************************************************)
(* lib.rs: the fragment of a span.                                         *)
(***************************************************************************)
\* on_new_span: the SpanFields inserted for the attributes of a new span
NewSpanFields(attrs) ==
    finish(RecordAll(JsonVisitor_new(JsonWriter_new), attrs).writer)

\* mutant of RecordedSpanFields: a continuing visitor whatever `fields` holds
RecordedSpanFields_continuing(fields, values) ==
    finish(RecordAll(JsonVisitor_continuing(JsonWriter_continuing(fields)), values).writer)

\* mutant of RecordedSpanFields: values that the fragment already ends with
\* are not recorded again
RecordedSpanFields_dedup(fields, values) ==
    LET again == finish(RecordAll(JsonVisitor_new(JsonWriter_new), values).writer)
        jw    == JsonWriter_continuing(fields)
        visitor == IF fields # <<>> THEN JsonVisitor_continuing(jw) ELSE JsonVisitor_new(jw)
    IN  IF /\ again # <<>>
           /\ Len(fields) >= Len(again)
           /\ SubSeq(fields, Len(fields) - Len(again) + 1, Len(fields)) = again
        THEN fields
        ELSE finish(RecordAll(visitor, values).writer)

\* mutant of RecordedSpanFields: the fragment written anew from `values`
RecordedSpanFields_rewritten(fields, values) ==
    finish(RecordAll(JsonVisitor_new(JsonWriter_new), values).writer)

\* mutant of RecordedSpanFields: the comma that joins the recorded fields to
\* the existing ones written before the stream is visited
RecordedSpanFields_eager_comma(fields, values) ==
    LET has_existing == fields # <<>>
        jw      == JsonWriter_continuing(fields)
        visitor == IF has_existing THEN JsonVisitor_new(comma(jw)) ELSE JsonVisitor_new(jw)
    IN  finish(RecordAll(visitor, values).writer)

\* on_record: the SpanFields after recording `values` on top of `fields`
RecordedSpanFields(fields, values) ==
    LET has_existing == fields # <<>>
        jw      == JsonWriter_continuing(fields)
        visitor == IF has_existing THEN JsonVisitor_continuing(jw) ELSE JsonVisitor_new(jw)
    IN  finish(RecordAll(visitor, values).writer)

(***************************************************************************)
(* lib.rs: JsonLayer and its builder.  timer, display_thread_id and        *)
(* display_thread_name are the clock and thread options of the layer.      *)
(***************************************************************************)
JsonLayer_new ==
    [display_target |-> TRUE, display_filename |-> FALSE,
     display_line_number |-> FALSE, flatten_event |-> FALSE,
     timer |-> TRUE, display_thread_id |-> FALSE, display_thread_name |-> FALSE]

with_target(l, b) == [l EXCEPT !.display_target = b]
\* mutant of with_file: the layer rebuilt from the default target option
with_file_resets_target(l, b) == [l EXCEPT !.display_filename = b, !.display_target = TRUE]

with_file(l, b) == [l EXCEPT !.display_filename = b]
with_line_number(l, b) == [l EXCEPT !.display_line_number = b]
flatten_event(l, b) == [l EXCEPT !.flatten_event = b]
without_time(l) == [l EXCEPT !.timer = FALSE]
\* with_timer(t): has_clock is FALSE for the unit timer (), which formats
\* nothing, and TRUE for a timer that formats the time
with_timer(l, has_clock) == [l EXCEPT !.timer = has_clock]
with_thread_ids(l, b) == [l EXCEPT !.display_thread_id = b]
\* mutant of with_thread_names: both thread options set
with_thread_names_both(l, b) == [l EXCEPT !.display_thread_name = b, !.display_thread_id = b]

with_thread_names(l, b) == [l EXCEPT !.display_thread_name = b]

(***************************************************************************)
(* Inputs: the callsites of the instrumented program.                      *)
(***************************************************************************)
\* event callsites.  "message" is recorded by tracing as a Debug value.
\*   INFO  target app, m.rs:7, no fields
\*   INFO  target app, m.rs:7, message
\*   WARN  target holding a quote and a line feed, no file, no line,
\*         message (holding a quote) and k = -5
\*   ERROR target app, m.rs:7, err (holding a line feed), ok = true, message
Events ==
    { [level |-> <<73, 78, 70, 79>>, target |-> <<97, 112, 112>>,
       file |-> Some(<<109, 46, 114, 115>>), line |-> Some(7),
       fields |-> <<>>],
      [level |-> <<73, 78, 70, 79>>, target |-> <<97, 112, 112>>,
       file |-> Some(<<109, 46, 114, 115>>), line |-> Some(7),
       fields |-> <<DebugField(<<109, 101, 115, 115, 97, 103, 101>>, <<104, 105>>)>>],
      [level |-> <<87, 65, 82, 78>>, target |-> <<97, 34, 10>>,
       file |-> NoFile, line |-> NoLine,
       fields |-> <<DebugField(<<109, 101, 115, 115, 97, 103, 101>>, <<104, 34, 105>>),
                    I64Field(<<107>>, 0 - 5)>>],
      [level |-> <<69, 82, 82, 79, 82>>, target |-> <<97, 112, 112>>,
       file |-> Some(<<109, 46, 114, 115>>), line |-> Some(7),
       fields |-> <<ErrorField(<<101, 114, 114>>, <<101, 10>>),
                    BoolField(<<111, 107>>, TRUE),
                    DebugField(<<109, 101, 115, 115, 97, 103, 101>>, <<104, 105>>)>>] }

\* span callsites: outer with req = "r1", and inner, whose field step is
\* declared Empty and recorded later
SpanSites ==
    { [name |-> <<111, 117, 116, 101, 114>>,
       attrs |-> <<StrField(<<114, 101, 113>>, <<114, 49>>)>>],
      [name |-> <<105, 110, 110, 101, 114>>, attrs |-> <<>>] }

\* what span.record(..) is called with: nothing, or step = 2
RecordValues == { <<>>, <<U64Field(<<115, 116, 101, 112>>, 2)>> }

\* the characters of the strings handed to the escaper, each as its UTF-8
\* bytes: every control character, the quote, the backslash, space, /, a,
\* DEL, e-acute (2 bytes) and the CJK character U+65E5 (3 bytes)
Chars ==
    { <<b>> : b \in 0..31 }
      \cup { <<34>>, <<92>>, <<32>>, <<47>>, <<97>>, <<127>>,
             <<195, 169>>, <<230, 151, 165>> }

BoundedSeq(S, n) == UNION { [1..k -> S] : k \in 0..n }

RECURSIVE Flatten(_)
Flatten(q) == IF q = <<>> THEN <<>> ELSE Head(q) \o Flatten(Tail(q))

\* the strings (&str, so valid UTF-8) of at most MaxStrLen characters
Strings == { Flatten(cs) : cs \in BoundedSeq(Chars, MaxStrLen) }

\* the buffer escape_json_into is handed by val_str: it holds the opening quote
EscapeBuf == <<34>>

\* times of day handed to the calendar functions with each day: the second
\* of the day and the microseconds of the instant
DayTimes ==
    { [tod |-> 0, micros |-> 0], [tod |-> 1, micros |-> 1],
      [tod |-> 43200, micros |-> 123456], [tod |-> 86399, micros |-> 999999] }

\* Duration::as_secs of the instant at second tod of day `days`
SecsOf(days, tod) == days * 86400 + tod

\* the days whose seconds the integers of the model hold (they end in 2038)
SecsFit(days) == days < 2147483647 \div 86400

\* f64 values: NaN, the two infinities, and finite values of both signs,
\* whole (0.0 and -0.0 among them) and fractional
Floats ==
    { [class |-> "nan", neg |-> FALSE, int |-> 0, frac |-> <<>>],
      [class |-> "inf", neg |-> FALSE, int |-> 0, frac |-> <<>>],
      [class |-> "inf", neg |-> TRUE, int |-> 0, frac |-> <<>>] }
      \cup { [class |-> "finite", neg |-> s, int |-> i, frac |-> f] :
               s \in BOOLEAN, i \in {0, 1, 3, 100},
               f \in {<<>>, <<5>>, <<1, 4>>, <<0, 0, 1>>} }

\* u128 values: 0, 5, 10000, 2^64 and u128::MAX
WideUnsigned ==
    { [neg |-> FALSE, limbs |-> m] :
        m \in { <<0>>, <<5>>, <<1, 0>>, <<1844, 6744, 737, 955, 1616>>,
                <<340, 2823, 6692, 938, 4634, 6337, 4607, 4317, 6821, 1455>> } }

\* i128 values: 0, -1, -(10^16 + 1), i128::MAX and i128::MIN
WideSigned ==
    { [neg |-> FALSE, limbs |-> <<0>>],
      [neg |-> TRUE, limbs |-> <<1>>],
      [neg |-> TRUE, limbs |-> <<1, 0, 0, 0, 1>>],
      [neg |-> FALSE, limbs |-> <<170, 1411, 8346, 469, 2317, 3168, 7303, 7158, 8410, 5727>>],
      [neg |-> TRUE, limbs |-> <<170, 1411, 8346, 469, 2317, 3168, 7303, 7158, 8410, 5728>>] }

\* the fields handed to a visitor on its own: name v, one of each type
FieldValues ==
    { F64Field(<<118>>, x) : x \in Floats }
      \cup { U128Field(<<118>>, x) : x \in WideUnsigned }
      \cup { I128Field(<<118>>, x) : x \in WideSigned }
      \cup { StrField(<<118>>, <<110, 117, 108, 108>>), StrField(<<118>>, <<49, 34>>),
             U64Field(<<118>>, 0), U64Field(<<118>>, 42),
             I64Field(<<118>>, 0 - 42), BoolField(<<118>>, TRUE),
             BoolField(<<118>>, FALSE), DebugField(<<118>>, <<49, 50>>),
             ErrorField(<<118>>, <<101, 10>>) }

\* the fields recorded through a visitor driven on its own: one for each
\* record_* method
VisitorFields ==
    { StrField(<<115>>, <<120, 34>>), U64Field(<<117>>, 7), I64Field(<<105>>, 0 - 7),
      F64Field(<<102>>, [class |-> "finite", neg |-> FALSE, int |-> 1, frac |-> <<5>>]),
      BoolField(<<98>>, TRUE), DebugField(<<100>>, <<49, 50>>),
      ErrorField(<<101>>, <<101, 10>>) }

\* the characters of the strings an event and its span carry: NUL, tab, line
\* feed, carriage return, 0x1f, the quote, the backslash, the comma, the
\* slash, a, the closing brace and e-acute
EventChars ==
    { <<0>>, <<9>>, <<10>>, <<13>>, <<31>>, <<34>>, <<92>>, <<44>>, <<47>>, <<97>>,
      <<125>>, <<195, 169>> }

\* the strings of at most MaxStrLen of those characters
EventStrings == { Flatten(cs) : cs \in BoundedSeq(EventChars, MaxStrLen) }

\* the member a continuing visitor finds in the buffer: "a":1
FirstMember == <<34, 97, 34, 58, 49>>

Instants == { [secs |-> 1771588800, micros |-> 123456] }

\* "main"
Threads == { [id |-> 1, name |-> <<109, 97, 105, 110>>] }

(***************************************************************************)
(* State.                                                                  *)
(*   layer      the JsonLayer being built, then installed                  *)
(*   installed  the layer has been handed to the subscriber               *)
(*   registry   the entered spans, root first; each is [name, fields,      *)
(*              recorded, nrec]: fields is the SpanFields extension,       *)
(*              recorded the fields recorded on the span so far and nrec   *)
(*              the number of on_record calls (both history)               *)
(*   events     on_event calls so far                                      *)
(*   made       make_writer calls the sink has seen                        *)
(*   writes     write_all calls the sink has seen                          *)
(*   written    the bytes the latest callback handed to write_all; empty   *)
(*              when that callback wrote nothing                           *)
(*   event_in   the event the latest callback was given, when it was       *)
(*              on_event                                                   *)
(*   built      the builder method the latest step called, with its       *)
(*              argument, when that step was a builder call                *)
(*   last_ok    whether the latest write_all succeeded                     *)
(*   failures   write_all calls that failed                                *)
(*   outcome    how the latest on_event ended                              *)
(*   esc_in     the string handed to the writer called on its own          *)
(*   esc_cuts   where a formatter cut that string into the pieces it       *)
(*              handed to write_str, as byte offsets (val_debug,           *)
(*              val_display)                                               *)
(*   esc_op     the method called with it: none yet, val_str or            *)
(*              escape_json_into, val_debug, val_display, or on_event when *)
(*              the string is what an event and its span carry             *)
(*   esc_out    the buffer after that call                                 *)
(*   cal_days   the day (since the epoch) handed to the calendar functions *)
(*   cal_time   the time of that day, a member of DayTimes                 *)
(*   cal_op     the function called: none yet, days_to_ymd,                *)
(*              secs_to_datetime or format_timestamp                       *)
(*   cal_out    what it returned                                           *)
(*   val_in     the field handed to a visitor on its own                   *)
(*   val_op     the call made with it: none yet, new (a fresh visitor),    *)
(*              continuing (a continuing visitor) or val_f64               *)
(*   val_out    the buffer after that call                                 *)
(*   visitor    a JsonVisitor driven on its own: [writer, first]           *)
(*   vis_mode   how it was made: none (not yet), new or continuing         *)
(*   vis_log    the fields recorded through it so far (history)            *)
(*   pc         where each thread stands in its on_event call: idle        *)
(*              (outside it), fields (the record is written up to the      *)
(*              event fields), span (it is written up to `span`), built    *)
(*              (the line is finished), writer (make_writer has returned)  *)
(*   thread_jw  the local buffer `jw` of each thread's on_event call       *)
(*   thread_call  the event and clock reading of each thread's call        *)
(*   calls      the on_event calls each thread has begun                   *)
(*   sink       the buffers handed to write_all, in the order the sink     *)
(*              received them                                              *)
(*   origin     for each of them, the thread and the call it came from     *)
(*              (history)                                                  *)
(***************************************************************************)
VARIABLES layer, installed, registry, events, made, writes, written,
          event_in, built, last_ok, failures, outcome, esc_in, esc_cuts, esc_op, esc_out,
          cal_days, cal_time, cal_op, cal_out, val_in, val_op, val_out,
          pc, thread_jw, thread_call, calls, sink, origin,
          visitor, vis_mode, vis_log

vars == <<layer, installed, registry, events, made, writes, written,
          event_in, built, last_ok, failures, outcome, esc_in, esc_cuts, esc_op, esc_out,
          cal_days, cal_time, cal_op, cal_out, val_in, val_op, val_out,
          pc, thread_jw, thread_call, calls, sink, origin,
          visitor, vis_mode, vis_log>>

\* what a callback that writes nothing leaves alone, and what it hands the
\* sink: nothing
sinkvars == <<events, made, writes, last_ok, failures, outcome>>
escvars == <<esc_in, esc_cuts, esc_op, esc_out>>
calvars == <<cal_days, cal_time, cal_op, cal_out>>
valvars == <<val_in, val_op, val_out>>
thrvars == <<pc, thread_jw, thread_call, calls, sink, origin>>
visvars == <<visitor, vis_mode, vis_log>>
NoEvent == [level |-> <<>>, target |-> <<>>, file |-> NoFile, line |-> NoLine, fields |-> <<>>]
NoBuilder == [method |-> "none", arg |-> FALSE]
NoWrite == written' = <<>> /\ event_in' = NoEvent /\ built' = NoBuilder

\* the step is the builder call method(arg); it writes nothing
Built(method, arg) ==
    /\ written' = <<>>
    /\ event_in' = NoEvent
    /\ built' = [method |-> method, arg |-> arg]

InitLayer ==
    /\ layer = JsonLayer_new
    /\ installed = FALSE
    /\ registry = <<>>
    /\ events = 0
    /\ made = 0
    /\ writes = 0
    /\ written = <<>>
    /\ event_in = NoEvent
    /\ built = NoBuilder
    /\ last_ok = TRUE
    /\ failures = 0
    /\ outcome = "none"

\* no string has been handed to the writer on its own
InitNoEscape ==
    /\ esc_in = <<>>
    /\ esc_cuts = <<>>
    /\ esc_op = "none"
    /\ esc_out = <<>>

\* no instant has been handed to the calendar functions on their own
InitNoCalendar ==
    /\ cal_days = 0
    /\ cal_time = [tod |-> 0, micros |-> 0]
    /\ cal_op = "none"
    /\ cal_out = <<>>

\* no field has been handed to a visitor on its own
InitNoValue ==
    /\ val_in = U64Field(<<118>>, 0)
    /\ val_op = "none"
    /\ val_out = <<>>

\* no thread is inside on_event
NoCall == [event |-> NoEvent, now |-> [secs |-> 0, micros |-> 0]]

InitNoThreads ==
    /\ pc = [t \in 1..NumThreads |-> "idle"]
    /\ thread_jw = [t \in 1..NumThreads |-> <<>>]
    /\ thread_call = [t \in 1..NumThreads |-> NoCall]
    /\ calls = [t \in 1..NumThreads |-> 0]
    /\ sink = <<>>
    /\ origin = <<>>

\* no visitor has been made on its own
InitNoVisitor ==
    /\ visitor = [writer |-> <<>>, first |-> TRUE]
    /\ vis_mode = "none"
    /\ vis_log = <<>>

Init ==
    /\ InitLayer
    /\ InitNoEscape
    /\ InitNoCalendar
    /\ InitNoValue
    /\ InitNoThreads
    /\ InitNoVisitor

Running == installed /\ outcome # "panicked"

\* the builder methods, called on the layer before it is installed
WithTarget ==
    /\ ~installed
    /\ \E b \in BOOLEAN :
          /\ layer' = with_target(layer, b)
          /\ Built("with_target", b)
    /\ UNCHANGED <<thrvars, visvars, installed, registry, sinkvars, escvars, calvars, valvars>>

WithFile ==
    /\ ~installed
    /\ \E b \in BOOLEAN :
          /\ layer' = with_file(layer, b)
          /\ Built("with_file", b)
    /\ UNCHANGED <<thrvars, visvars, installed, registry, sinkvars, escvars, calvars, valvars>>

WithLineNumber ==
    /\ ~installed
    /\ \E b \in BOOLEAN :
          /\ layer' = with_line_number(layer, b)
          /\ Built("with_line_number", b)
    /\ UNCHANGED <<thrvars, visvars, installed, registry, sinkvars, escvars, calvars, valvars>>

FlattenEvent ==
    /\ ~installed
    /\ \E b \in BOOLEAN :
          /\ layer' = flatten_event(layer, b)
          /\ Built("flatten_event", b)
    /\ UNCHANGED <<thrvars, visvars, installed, registry, sinkvars, escvars, calvars, valvars>>

WithoutTime ==
    /\ ~installed
    /\ layer' = without_time(layer)
    /\ Built("without_time", FALSE)
    /\ UNCHANGED <<thrvars, visvars, installed, registry, sinkvars, escvars, calvars, valvars>>

WithTimer ==
    /\ ~installed
    /\ \E has_clock \in BOOLEAN :
          /\ layer' = with_timer(layer, has_clock)
          /\ Built("with_timer", has_clock)
    /\ UNCHANGED <<thrvars, visvars, installed, registry, sinkvars, escvars, calvars, valvars>>

WithThreadIds ==
    /\ ~installed
    /\ \E b \in BOOLEAN :
          /\ layer' = with_thread_ids(layer, b)
          /\ Built("with_thread_ids", b)
    /\ UNCHANGED <<thrvars, visvars, installed, registry, sinkvars, escvars, calvars, valvars>>

WithThreadNames ==
    /\ ~installed
    /\ \E b \in BOOLEAN :
          /\ layer' = with_thread_names(layer, b)
          /\ Built("with_thread_names", b)
    /\ UNCHANGED <<thrvars, visvars, installed, registry, sinkvars, escvars, calvars, valvars>>

\* registry().with(layer): the layer is moved into the subscriber
Install ==
    /\ ~installed
    /\ installed' = TRUE
    /\ NoWrite
    /\ UNCHANGED <<thrvars, visvars, layer, registry, sinkvars, escvars, calvars, valvars>>

\* a span is created and entered: on_new_span stores its fragment
OnNewSpan ==
    /\ Running
    /\ Len(registry) < MaxDepth
    /\ \E site \in SpanSites :
          registry' = Append(registry,
                             [name |-> site.name, fields |-> NewSpanFields(site.attrs),
                              recorded |-> site.attrs, nrec |-> 0])
    /\ NoWrite
    /\ UNCHANGED <<thrvars, visvars, layer, installed, sinkvars, escvars, calvars, valvars>>

\* the on_record calls made on the entered spans
RECURSIVE TotalRecords(_)
TotalRecords(reg) == IF reg = <<>> THEN 0 ELSE Head(reg).nrec + TotalRecords(Tail(reg))

\* span.record(..) on the i-th entered span: on_record replaces its fragment
OnRecord ==
    /\ Running
    /\ TotalRecords(registry) < MaxRecords
    /\ \E i \in 1..Len(registry), values \in RecordValues :
          /\ registry' =
               [registry EXCEPT
                  ![i] = [name |-> @.name,
                          fields |-> RecordedSpanFields(@.fields, values),
                          recorded |-> @.recorded \o values,
                          nrec |-> @.nrec + 1]]
    /\ NoWrite
    /\ UNCHANGED <<thrvars, visvars, layer, installed, sinkvars, escvars, calvars, valvars>>

\* the innermost span is exited and closed; its extensions go with it
CloseSpan ==
    /\ Running
    /\ registry # <<>>
    /\ registry' = SubSeq(registry, 1, Len(registry) - 1)
    /\ NoWrite
    /\ UNCHANGED <<thrvars, visvars, layer, installed, sinkvars, escvars, calvars, valvars>>

\* ctx.event_scope(event): None outside any span, else the entered spans from
\* the innermost to the root
event_scope(reg) ==
    IF reg = <<>> THEN [some |-> FALSE, v |-> <<>>]
    ELSE [some |-> TRUE,
          v |-> Reverse([i \in 1..Len(reg) |-> [name |-> reg[i].name, fields |-> reg[i].fields]])]

\* mutant of extensions: the SpanFields taken out of the extensions
extensions_taken(reg) == [i \in 1..Len(reg) |-> [reg[i] EXCEPT !.fields = <<>>]]

\* span.extensions() and ext.get::<SpanFields>(): on_event borrows the
\* fragments shared and copies their bytes with raw; the spans it leaves
extensions(reg) == reg

\* mutant of WriteOutcome: the Result unwrapped
WriteOutcome_unwrap(ok) == IF ok THEN "returned" ELSE "panicked"

\* `let _ = writer.write_all(..)`: the Result is dropped
WriteOutcome(ok) == "returned"

\* write_all is called once per event
WriteCalls(ok) == 1

\* make_writer is called once per event
WritersMade == 1

\* on_event with a sink whose write_all ends as one of `results` (TRUE: Ok)
on_event(results) ==
    /\ Running
    /\ events < MaxEvents
    /\ \E event \in Events, now \in Instants, thread \in Threads :
          /\ written' = EventLine(layer, event, now, thread, event_scope(registry))
          /\ event_in' = event
    /\ built' = NoBuilder
    /\ \E ok \in results :
          /\ writes' = writes + WriteCalls(ok)
          /\ last_ok' = ok
          /\ failures' = failures + (IF ok THEN 0 ELSE 1)
          /\ outcome' = WriteOutcome(ok)
    /\ made' = made + WritersMade
    /\ events' = events + 1
    /\ registry' = extensions(registry)
    /\ UNCHANGED <<thrvars, visvars, layer, installed, escvars, calvars, valvars>>

\* an event, the sink failing or not
OnEvent == on_event(BOOLEAN)

\* an event written to a sink that does not fail
OnEventSinkOk == on_event({TRUE})

\* the life of the spans and events of a program that installs the layer
\* as JsonLayer::new builds it
Next ==
    \/ Install
    \/ OnNewSpan
    \/ OnRecord
    \/ CloseSpan
    \/ OnEvent

Spec == Init /\ [][Next]_vars

\* a program that sets the options of the layer before it installs it, logs
\* inside spans that record nothing after their creation, and writes to a
\* sink that does not fail
NextOptions ==
    \/ WithTarget
    \/ WithFile
    \/ WithLineNumber
    \/ FlattenEvent
    \/ WithoutTime
    \/ WithTimer
    \/ WithThreadIds
    \/ WithThreadNames
    \/ Install
    \/ OnNewSpan
    \/ CloseSpan
    \/ OnEventSinkOk

SpecOptions == Init /\ [][NextOptions]_vars

\* the writer called on its own, on one string
InitEscape ==
    /\ InitLayer
    /\ esc_in \in Strings
    /\ esc_cuts = <<>>
    /\ esc_op = "none"
    /\ esc_out = <<>>
    /\ InitNoCalendar
    /\ InitNoValue
    /\ InitNoThreads
    /\ InitNoVisitor

\* JsonWriter::new().val_str(esc_in)
ValStr ==
    /\ esc_op = "none"
    /\ esc_op' = "val_str"
    /\ esc_out' = val_str(JsonWriter_new, esc_in)
    /\ UNCHANGED <<thrvars, visvars, layer, installed, registry, sinkvars, written, event_in, built, esc_in, esc_cuts, calvars, valvars>>

\* escape_json_into(esc_in, &mut buf)
EscapeJsonInto ==
    /\ esc_op = "none"
    /\ esc_op' = "escape_json_into"
    /\ esc_out' = escape_json_into(esc_in, EscapeBuf)
    /\ UNCHANGED <<thrvars, visvars, layer, installed, registry, sinkvars, written, event_in, built, esc_in, esc_cuts, calvars, valvars>>

\* a &str ends after k bytes of s: no UTF-8 sequence is cut
IsCharBoundary(s, k) ==
    IF k = 0 \/ k = Len(s) THEN TRUE ELSE (s[k + 1] < 128 \/ s[k + 1] > 191)

\* s cut at the byte offsets of `cuts` (non-decreasing)
RECURSIVE ChunksOf(_, _, _)
ChunksOf(s, from, cuts) ==
    IF cuts = <<>> THEN <<SubSeq(s, from + 1, Len(s))>>
    ELSE <<SubSeq(s, from + 1, Head(cuts))>> \o ChunksOf(s, Head(cuts), Tail(cuts))

\* JsonWriter::new().val_debug(v), Debug of v writing esc_in in three pieces
ValDebug ==
    /\ esc_op = "none"
    /\ \E i \in 0..Len(esc_in), j \in 0..Len(esc_in) :
          /\ i <= j
          /\ IsCharBoundary(esc_in, i)
          /\ IsCharBoundary(esc_in, j)
          /\ esc_cuts' = <<i, j>>
          /\ esc_out' = val_debug(JsonWriter_new, ChunksOf(esc_in, 0, <<i, j>>))
    /\ esc_op' = "val_debug"
    /\ UNCHANGED <<thrvars, visvars, layer, installed, registry, sinkvars, written, event_in, built, esc_in, calvars, valvars>>

\* JsonWriter::new().val_display(v), Display of v writing esc_in in two pieces
ValDisplay ==
    /\ esc_op = "none"
    /\ \E i \in 0..Len(esc_in) :
          /\ IsCharBoundary(esc_in, i)
          /\ esc_cuts' = <<i>>
          /\ esc_out' = val_display(JsonWriter_new, ChunksOf(esc_in, 0, <<i>>))
    /\ esc_op' = "val_display"
    /\ UNCHANGED <<thrvars, visvars, layer, installed, registry, sinkvars, written, event_in, built, esc_in, calvars, valvars>>

NextEscape ==
    \/ ValStr
    \/ EscapeJsonInto
    \/ ValDebug
    \/ ValDisplay

SpecEscape == InitEscape /\ [][NextEscape]_vars

(***************************************************************************)
(* lib.rs: on_event for an event and a span whose strings are all the one  *)
(* string esc_in; the keys are identifiers.                                *)
(***************************************************************************)
\* an event whose target, file name and string, Debug and Error field
\* values are s
StringsEvent(s) ==
    [level |-> <<73, 78, 70, 79>>, target |-> s, file |-> Some(s), line |-> Some(7),
     fields |-> <<StrField(<<115>>, s), DebugField(<<100>>, s), ErrorField(<<101>>, s)>>]

\* the spans entered: none, or one whose name and field k are s
StringsScopes(s) ==
    { <<>>,
      << [name |-> s, fields |-> NewSpanFields(<<StrField(<<107>>, s)>>),
          recorded |-> <<StrField(<<107>>, s)>>, nrec |-> 0] >> }

\* a layer that also writes the file name is installed, the span is entered
InitStrings ==
    /\ esc_in \in EventStrings
    /\ esc_cuts = <<>>
    /\ esc_op = "none"
    /\ esc_out = <<>>
    /\ layer = with_file(JsonLayer_new, TRUE)
    /\ installed = TRUE
    /\ registry \in StringsScopes(esc_in)
    /\ events = 0
    /\ made = 0
    /\ writes = 0
    /\ written = <<>>
    /\ event_in = NoEvent
    /\ built = NoBuilder
    /\ last_ok = TRUE
    /\ failures = 0
    /\ outcome = "none"
    /\ InitNoCalendar
    /\ InitNoValue
    /\ InitNoThreads
    /\ InitNoVisitor

\* on_event for the event that carries esc_in
OnEventStrings ==
    /\ Running
    /\ esc_op = "none"
    /\ esc_op' = "on_event"
    /\ \E now \in Instants, thread \in Threads :
          written' = EventLine(layer, StringsEvent(esc_in), now, thread, event_scope(registry))
    /\ event_in' = StringsEvent(esc_in)
    /\ built' = NoBuilder
    /\ writes' = writes + WriteCalls(TRUE)
    /\ last_ok' = TRUE
    /\ outcome' = WriteOutcome(TRUE)
    /\ made' = made + WritersMade
    /\ events' = events + 1
    /\ registry' = extensions(registry)
    /\ UNCHANGED <<thrvars, visvars, layer, installed, failures, esc_in, esc_cuts, esc_out,
                   calvars, valvars>>

NextStrings == OnEventStrings

SpecStrings == InitStrings /\ [][NextStrings]_vars

\* the calendar functions called on their own, on one instant
InitCalendar ==
    /\ InitLayer
    /\ InitNoEscape
    /\ cal_days \in 0..MaxDays
    /\ cal_time \in (IF SecsFit(cal_days) THEN DayTimes ELSE {[tod |-> 0, micros |-> 0]})
    /\ cal_op = "none"
    /\ cal_out = <<>>
    /\ InitNoValue
    /\ InitNoThreads
    /\ InitNoVisitor

\* days_to_ymd(cal_days)
DaysToYmd ==
    /\ cal_op = "none"
    /\ cal_time.tod = 0
    /\ cal_op' = "days_to_ymd"
    /\ cal_out' = days_to_ymd(cal_days)
    /\ UNCHANGED <<thrvars, visvars, layer, installed, registry, sinkvars, written, event_in, built, escvars,
                   cal_days, cal_time, valvars>>

\* secs_to_datetime(secs)
SecsToDatetime ==
    /\ cal_op = "none"
    /\ SecsFit(cal_days)
    /\ cal_op' = "secs_to_datetime"
    /\ cal_out' = secs_to_datetime(SecsOf(cal_days, cal_time.tod))
    /\ UNCHANGED <<thrvars, visvars, layer, installed, registry, sinkvars, written, event_in, built, escvars,
                   cal_days, cal_time, valvars>>

\* format_timestamp(UNIX_EPOCH + Duration::new(secs, micros * 1000))
FormatTimestamp ==
    /\ cal_op = "none"
    /\ SecsFit(cal_days)
    /\ cal_op' = "format_timestamp"
    /\ cal_out' = format_timestamp([secs |-> SecsOf(cal_days, cal_time.tod),
                                     micros |-> cal_time.micros])
    /\ UNCHANGED <<thrvars, visvars, layer, installed, registry, sinkvars, written, event_in, built, escvars,
                   cal_days, cal_time, valvars>>

NextCalendar ==
    \/ DaysToYmd
    \/ SecsToDatetime
    \/ FormatTimestamp

SpecCalendar == InitCalendar /\ [][NextCalendar]_vars

\* a visitor, or val_f64, called on its own, on one field
InitValues ==
    /\ InitLayer
    /\ InitNoEscape
    /\ InitNoCalendar
    /\ val_in \in FieldValues
    /\ val_op = "none"
    /\ val_out = <<>>
    /\ InitNoThreads
    /\ InitNoVisitor

\* the field recorded by JsonVisitor::new on an empty writer
RecordNew ==
    /\ val_op = "none"
    /\ val_op' = "new"
    /\ val_out' = VisitField(JsonVisitor_new(JsonWriter_new), val_in).writer
    /\ UNCHANGED <<thrvars, visvars, layer, installed, registry, sinkvars, written, event_in, built, escvars,
                   calvars, val_in>>

\* the field recorded by JsonVisitor::continuing on a writer that holds a member
RecordContinuing ==
    /\ val_op = "none"
    /\ val_op' = "continuing"
    /\ val_out' = VisitField(JsonVisitor_continuing(JsonWriter_continuing(FirstMember)),
                             val_in).writer
    /\ UNCHANGED <<thrvars, visvars, layer, installed, registry, sinkvars, written, event_in, built, escvars,
                   calvars, val_in>>

\* JsonWriter::new().val_f64(x)
ValF64 ==
    /\ val_op = "none"
    /\ val_in.kind = "f64"
    /\ val_op' = "val_f64"
    /\ val_out' = val_f64(JsonWriter_new, val_in.num)
    /\ UNCHANGED <<thrvars, visvars, layer, installed, registry, sinkvars, written, event_in, built, escvars,
                   calvars, val_in>>

NextValues ==
    \/ RecordNew
    \/ RecordContinuing
    \/ ValF64

SpecValues == InitValues /\ [][NextValues]_vars

(***************************************************************************)
(* visitor.rs: one JsonVisitor, made by new or continuing, through which a *)
(* stream records its fields one after the other.                          *)
(***************************************************************************)
\* JsonVisitor::new(&mut JsonWriter::new())
VisitorNew ==
    /\ vis_mode = "none"
    /\ visitor' = JsonVisitor_new(JsonWriter_new)
    /\ vis_mode' = "new"
    /\ UNCHANGED <<layer, installed, registry, sinkvars, written, event_in, built,
                   escvars, calvars, valvars, thrvars, vis_log>>

\* JsonVisitor::continuing(&mut JsonWriter::continuing(b"\"a\":1"))
VisitorContinuing ==
    /\ vis_mode = "none"
    /\ visitor' = JsonVisitor_continuing(JsonWriter_continuing(FirstMember))
    /\ vis_mode' = "continuing"
    /\ UNCHANGED <<layer, installed, registry, sinkvars, written, event_in, built,
                   escvars, calvars, valvars, thrvars, vis_log>>

\* the stream hands the visitor its next field
VisitorRecord ==
    /\ vis_mode # "none"
    /\ Len(vis_log) < MaxFields
    /\ \E f \in VisitorFields :
          /\ visitor' = VisitField(visitor, f)
          /\ vis_log' = Append(vis_log, f)
    /\ UNCHANGED <<layer, installed, registry, sinkvars, written, event_in, built,
                   escvars, calvars, valvars, thrvars, vis_mode>>

NextVisitor ==
    \/ VisitorNew
    \/ VisitorContinuing
    \/ VisitorRecord

SpecVisitor == Init /\ [][NextVisitor]_vars

(***************************************************************************)
(* lib.rs: on_event called from several threads.  on_event takes &self and *)
(* keeps the record in the local `jw`; the layer and the span extensions   *)
(* are only read.  A call is four steps: the record up to the event        *)
(* fields, the rest of the record, make_writer, write_all.                 *)
(***************************************************************************)
\* the t-th thread: ThreadId(t), named w<t>
ThreadOf(t) == [id |-> t, name |-> <<119, 48 + t>>]

\* mutant of OwnBuffer: one buffer for every call
OwnBuffer_shared(t) == 1

\* `let mut jw = JsonWriter::new()`: the buffer of a call is a local of it
OwnBuffer(t) == t

\* the layers the threads log through: as built, and with thread ids
ThreadLayers == { JsonLayer_new, with_thread_ids(JsonLayer_new, TRUE) }

\* the spans every thread has entered: none, or outer{req="r1"}
ThreadScopes ==
    { <<>>,
      << [name |-> <<111, 117, 116, 101, 114>>,
          fields |-> NewSpanFields(<<StrField(<<114, 101, 113>>, <<114, 49>>)>>),
          recorded |-> <<StrField(<<114, 101, 113>>, <<114, 49>>)>>,
          nrec |-> 0] >> }

\* the layer is installed, the spans are entered and no thread logs yet
InitThreads ==
    /\ layer \in ThreadLayers
    /\ installed = TRUE
    /\ registry \in ThreadScopes
    /\ events = 0
    /\ made = 0
    /\ writes = 0
    /\ written = <<>>
    /\ event_in = NoEvent
    /\ built = NoBuilder
    /\ last_ok = TRUE
    /\ failures = 0
    /\ outcome = "none"
    /\ InitNoEscape
    /\ InitNoCalendar
    /\ InitNoValue
    /\ InitNoThreads
    /\ InitNoVisitor

\* thread t enters on_event: a new buffer, then timestamp, level and fields
ThreadFields(t) ==
    /\ Running
    /\ pc[t] = "idle"
    /\ events < MaxEvents
    /\ \E event \in Events, now \in Instants :
          /\ thread_call' = [thread_call EXCEPT ![t] = [event |-> event, now |-> now]]
          /\ thread_jw' =
               [thread_jw EXCEPT
                  ![OwnBuffer(t)] =
                      FieldsSection(layer.flatten_event,
                          LevelSection(
                              TimestampSection(layer.timer, obj_start(JsonWriter_new), now),
                              event),
                          event)]
    /\ pc' = [pc EXCEPT ![t] = "fields"]
    /\ calls' = [calls EXCEPT ![t] = @ + 1]
    /\ events' = events + 1
    /\ UNCHANGED <<visvars, layer, installed, registry, made, writes, written, event_in, built,
                   last_ok, failures, outcome, sink, origin, escvars, calvars, valvars>>

\* thread t writes the rest of the record: target to spans, obj_end and
\* finish_line
ThreadLine(t) ==
    /\ pc[t] = "fields"
    /\ thread_jw' =
         [thread_jw EXCEPT
            ![OwnBuffer(t)] =
                finish_line(obj_end(
                    ScopeSection(
                        ThreadNameSection(layer.display_thread_name,
                            ThreadIdSection(layer.display_thread_id,
                                LineNumberSection(layer.display_line_number,
                                    FilenameSection(layer.display_filename,
                                        TargetSection(layer.display_target,
                                            thread_jw[OwnBuffer(t)],
                                            thread_call[t].event),
                                        thread_call[t].event),
                                    thread_call[t].event),
                                ThreadOf(t)),
                            ThreadOf(t)),
                        event_scope(registry))))]
    /\ pc' = [pc EXCEPT ![t] = "built"]
    /\ UNCHANGED <<visvars, layer, installed, registry, sinkvars, written, event_in, built,
                   thread_call, calls, sink, origin, escvars, calvars, valvars>>

\* thread t takes a writer from the sink
ThreadMakeWriter(t) ==
    /\ pc[t] = "built"
    /\ made' = made + WritersMade
    /\ pc' = [pc EXCEPT ![t] = "writer"]
    /\ UNCHANGED <<visvars, layer, installed, registry, events, writes, written, event_in, built,
                   last_ok, failures, outcome, thread_jw, thread_call, calls, sink, origin,
                   escvars, calvars, valvars>>

\* thread t hands its line to write_all and leaves on_event
ThreadWriteAll(t) ==
    /\ pc[t] = "writer"
    /\ LET line == into_string(thread_jw[OwnBuffer(t)])
       IN  /\ sink' = Append(sink, line)
           /\ written' = line
    /\ origin' = Append(origin, [thread |-> t, call |-> thread_call[t]])
    /\ event_in' = thread_call[t].event
    /\ built' = NoBuilder
    /\ writes' = writes + WriteCalls(TRUE)
    /\ last_ok' = TRUE
    /\ outcome' = WriteOutcome(TRUE)
    /\ pc' = [pc EXCEPT ![t] = "idle"]
    /\ UNCHANGED <<visvars, layer, installed, registry, events, made, failures, thread_jw,
                   thread_call, calls, escvars, calvars, valvars>>

OnEventFields == \E t \in 1..NumThreads : ThreadFields(t)
OnEventLine == \E t \in 1..NumThreads : ThreadLine(t)
OnEventMakeWriter == \E t \in 1..NumThreads : ThreadMakeWriter(t)
OnEventWriteAll == \E t \in 1..NumThreads : ThreadWriteAll(t)

\* threads that log through one layer, their on_event calls interleaved
NextThreads ==
    \/ OnEventFields
    \/ OnEventLine
    \/ OnEventMakeWriter
    \/ OnEventWriteAll

SpecThreads == InitThreads /\ [][NextThreads]_vars

(***************************************************************************)
(* lib.rs: on_event on one thread while another thread records on an       *)
(* entered span.  on_event takes the extensions of the innermost span for  *)
(* `span` (lib.rs:191), lets that guard go at the end of the block, and    *)
(* takes the extensions of every span again in the loop that writes        *)
(* `spans` (lib.rs:213); on_record takes them mutably in between or not.   *)
(***************************************************************************)
\* thread t writes target to threadName and, inside spans, `span`
ThreadSpan(t) ==
    /\ pc[t] = "fields"
    /\ thread_jw' =
         [thread_jw EXCEPT
            ![OwnBuffer(t)] =
                LET scope == event_scope(registry)
                    jw8 == ThreadNameSection(layer.display_thread_name,
                               ThreadIdSection(layer.display_thread_id,
                                   LineNumberSection(layer.display_line_number,
                                       FilenameSection(layer.display_filename,
                                           TargetSection(layer.display_target,
                                               thread_jw[OwnBuffer(t)],
                                               thread_call[t].event),
                                           thread_call[t].event),
                                       thread_call[t].event),
                                   ThreadOf(t)),
                               ThreadOf(t))
                IN  IF scope.some THEN WriteSpan(jw8, scope.v) ELSE jw8]
    /\ pc' = [pc EXCEPT ![t] = "span"]
    /\ UNCHANGED <<visvars, layer, installed, registry, sinkvars, written, event_in, built,
                   thread_call, calls, sink, origin, escvars, calvars, valvars>>

\* thread t writes `spans` inside spans, then obj_end and finish_line
ThreadSpans(t) ==
    /\ pc[t] = "span"
    /\ thread_jw' =
         [thread_jw EXCEPT
            ![OwnBuffer(t)] =
                LET scope == event_scope(registry)
                    jw9 == IF scope.some
                           THEN WriteSpans(thread_jw[OwnBuffer(t)], scope.v)
                           ELSE thread_jw[OwnBuffer(t)]
                IN  finish_line(obj_end(jw9))]
    /\ pc' = [pc EXCEPT ![t] = "built"]
    /\ UNCHANGED <<visvars, layer, installed, registry, sinkvars, written, event_in, built,
                   thread_call, calls, sink, origin, escvars, calvars, valvars>>

OnEventSpan == \E t \in 1..NumThreads : ThreadSpan(t)
OnEventSpans == \E t \in 1..NumThreads : ThreadSpans(t)

\* threads that log inside spans on which other threads record fields
NextRace ==
    \/ OnEventFields
    \/ OnEventSpan
    \/ OnEventSpans
    \/ OnEventMakeWriter
    \/ OnEventWriteAll
    \/ OnRecord

SpecRace == InitThreads /\ [][NextRace]_vars

(***************************************************************************)
(* Reading the output back: a strict JSON reader over bytes (RFC 8259, no  *)
(* white space), used to state the properties of what the layer writes.    *)
(* Positions are 1-based; 0 stands for "does not parse".                   *)
(***************************************************************************)
At(b, i) == IF i >= 1 /\ i <= Len(b) THEN b[i] ELSE 0 - 1

\* b[i] opens a string: the position of the quote that closes it
RECURSIVE StringScan(_, _)
StringScan(b, j) ==
    IF j > Len(b) THEN 0
    ELSE IF b[j] = 34 THEN j
    ELSE IF b[j] < 32 THEN 0
    ELSE IF b[j] = 92 THEN (IF j + 1 > Len(b) THEN 0 ELSE StringScan(b, j + 2))
    ELSE StringScan(b, j + 1)

StringEnd(b, i) == IF At(b, i) = 34 THEN StringScan(b, i + 1) ELSE 0

IsDigit(c) == c >= 48 /\ c <= 57

RECURSIVE DigitsEnd(_, _)
DigitsEnd(b, j) == IF IsDigit(At(b, j + 1)) THEN DigitsEnd(b, j + 1) ELSE j

\* b[i] starts a number: the position of its last byte
NumberEnd(b, i) ==
    LET d0 == IF At(b, i) = 45 THEN i + 1 ELSE i
        e1 == IF IsDigit(At(b, d0)) THEN DigitsEnd(b, d0) ELSE 0
    IN  IF e1 = 0 THEN 0
        ELSE IF At(b, d0) = 48 /\ e1 > d0 THEN 0
        ELSE IF At(b, e1 + 1) = 46
             THEN (IF IsDigit(At(b, e1 + 2)) THEN DigitsEnd(b, e1 + 2) ELSE 0)
             ELSE e1

Holds(b, i, word) ==
    /\ i + Len(word) - 1 <= Len(b)
    /\ SubSeq(b, i, i + Len(word) - 1) = word

RECURSIVE ValueEnd(_, _)
RECURSIVE MembersFrom(_, _, _)
RECURSIVE ElementsFrom(_, _, _)

\* the members of the object that b[i] = { opens: [end, members], end the
\* position of the closing } (0: no object), each member [key, from, to]:
\* the key between its quotes and the first and last position of the value
MembersFrom(b, j, acc) ==
    LET ke == StringEnd(b, j)
        ve == IF ke # 0 /\ At(b, ke + 1) = 58 THEN ValueEnd(b, ke + 2) ELSE 0
        m  == [key |-> SubSeq(b, j + 1, ke - 1), from |-> ke + 2, to |-> ve]
    IN  IF ve = 0 THEN [end |-> 0, members |-> <<>>]
        ELSE IF At(b, ve + 1) = 125 THEN [end |-> ve + 1, members |-> Append(acc, m)]
        ELSE IF At(b, ve + 1) = 44 THEN MembersFrom(b, ve + 2, Append(acc, m))
        ELSE [end |-> 0, members |-> <<>>]

ObjectAt(b, i) ==
    IF At(b, i) # 123 THEN [end |-> 0, members |-> <<>>]
    ELSE IF At(b, i + 1) = 125 THEN [end |-> i + 1, members |-> <<>>]
    ELSE MembersFrom(b, i + 1, <<>>)

\* the elements of the array that b[i] = [ opens: [end, elements], each
\* element [from, to]
ElementsFrom(b, j, acc) ==
    LET ve == ValueEnd(b, j)
        e  == [from |-> j, to |-> ve]
    IN  IF ve = 0 THEN [end |-> 0, elements |-> <<>>]
        ELSE IF At(b, ve + 1) = 93 THEN [end |-> ve + 1, elements |-> Append(acc, e)]
        ELSE IF At(b, ve + 1) = 44 THEN ElementsFrom(b, ve + 2, Append(acc, e))
        ELSE [end |-> 0, elements |-> <<>>]

ArrayAt(b, i) ==
    IF At(b, i) # 91 THEN [end |-> 0, elements |-> <<>>]
    ELSE IF At(b, i + 1) = 93 THEN [end |-> i + 1, elements |-> <<>>]
    ELSE ElementsFrom(b, i + 1, <<>>)

\* the position of the last byte of the value that starts at b[i]
ValueEnd(b, i) ==
    LET c == At(b, i) IN
    IF c = 34 THEN StringEnd(b, i)
    ELSE IF c = 123 THEN ObjectAt(b, i).end
    ELSE IF c = 91 THEN ArrayAt(b, i).end
    ELSE IF Holds(b, i, <<116, 114, 117, 101>>) THEN i + 3
    ELSE IF Holds(b, i, <<102, 97, 108, 115, 101>>) THEN i + 4
    ELSE IF Holds(b, i, <<110, 117, 108, 108>>) THEN i + 3
    ELSE NumberEnd(b, i)

HexValue(c) ==
    IF c >= 48 /\ c <= 57 THEN c - 48
    ELSE IF c >= 97 /\ c <= 102 THEN c - 87
    ELSE IF c >= 65 /\ c <= 70 THEN c - 55
    ELSE 0 - 1

\* UTF-8 of a code point below 0x10000
Utf8(cp) ==
    IF cp < 128 THEN <<cp>>
    ELSE IF cp < 2048 THEN <<192 + (cp \div 64), 128 + (cp % 64)>>
    ELSE <<224 + (cp \div 4096), 128 + ((cp \div 64) % 64), 128 + (cp % 64)>>

\* the bytes a JSON string stands for; j runs over the text between the
\* quotes, which ends at position last.  [ok, s].
RECURSIVE Unescape(_, _, _, _)
Unescape(b, j, last, acc) ==
    IF j > last THEN [ok |-> TRUE, s |-> acc]
    ELSE LET c == b[j] IN
         IF c < 32 \/ c = 34 THEN [ok |-> FALSE, s |-> <<>>]
         ELSE IF c # 92 THEN Unescape(b, j + 1, last, Append(acc, c))
         ELSE IF j + 1 > last THEN [ok |-> FALSE, s |-> <<>>]
         ELSE LET e == b[j + 1] IN
              IF e = 34 \/ e = 92 \/ e = 47 THEN Unescape(b, j + 2, last, Append(acc, e))
              ELSE IF e = 98 THEN Unescape(b, j + 2, last, Append(acc, 8))
              ELSE IF e = 102 THEN Unescape(b, j + 2, last, Append(acc, 12))
              ELSE IF e = 110 THEN Unescape(b, j + 2, last, Append(acc, 10))
              ELSE IF e = 114 THEN Unescape(b, j + 2, last, Append(acc, 13))
              ELSE IF e = 116 THEN Unescape(b, j + 2, last, Append(acc, 9))
              ELSE IF e = 117 /\ j + 5 <= last
                      /\ \A k \in 2..5 : HexValue(b[j + k]) >= 0
                   THEN Unescape(b, j + 6, last,
                                 acc \o Utf8(4096 * HexValue(b[j + 2]) + 256 * HexValue(b[j + 3])
                                             + 16 * HexValue(b[j + 4]) + HexValue(b[j + 5])))
              ELSE [ok |-> FALSE, s |-> <<>>]

\* the bytes of the JSON string that occupies b[from..to], quotes included
StringValue(b, from, to) ==
    IF from < to /\ At(b, from) = 34 /\ StringEnd(b, from) = to
    THEN Unescape(b, from + 1, to - 1, <<>>)
    ELSE [ok |-> FALSE, s |-> <<>>]

(***************************************************************************)
(* What the claims speak of.                                               *)
(***************************************************************************)
\* the record written, without its final byte
Body(w) == SubSeq(w, 1, Len(w) - 1)

\* the top-level object of the record written
Top(w) == ObjectAt(Body(w), 1)

\* the position of the first member with key k among ms; 0 if there is none
IndexOfKey(ms, k) ==
    IF \E i \in 1..Len(ms) : ms[i].key = k
    THEN CHOOSE i \in 1..Len(ms) : ms[i].key = k /\ \A j \in 1..(i - 1) : ms[j].key # k
    ELSE 0

HasKey(ms, k) == \E i \in 1..Len(ms) : ms[i].key = k

RECURSIVE DigitsValue(_, _, _, _)
DigitsValue(b, j, to, acc) ==
    IF j > to THEN acc ELSE DigitsValue(b, j + 1, to, 10 * acc + (b[j] - 48))

\* the integer that the JSON number b[from..to] stands for
IntegerValue(b, from, to) ==
    IF b[from] = 45 THEN 0 - DigitsValue(b, from + 1, to, 0)
    ELSE DigitsValue(b, from, to, 0)

\* the member value b[m.from..m.to] is the JSON value of field f
ValueIsField(b, m, f) ==
    IF f.kind \in {"str", "debug", "error"}
    THEN StringValue(b, m.from, m.to) = [ok |-> TRUE, s |-> f.text]
    ELSE IF f.kind = "bool"
    THEN SubSeq(b, m.from, m.to)
           = (IF f.flag THEN <<116, 114, 117, 101>> ELSE <<102, 97, 108, 115, 101>>)
    ELSE /\ NumberEnd(b, m.from) = m.to
         /\ IntegerValue(b, m.from, m.to) = f.num

\* the place of each top-level key in the order of the record; a key that is
\* none of the ten is a flattened event field and takes the place of `fields`
Place(k) ==
    IF k = K_timestamp THEN 1
    ELSE IF k = K_level THEN 2
    ELSE IF k = K_target THEN 4
    ELSE IF k = K_filename THEN 5
    ELSE IF k = K_line_number THEN 6
    ELSE IF k = K_threadId THEN 7
    ELSE IF k = K_threadName THEN 8
    ELSE IF k = K_span THEN 9
    ELSE IF k = K_spans THEN 10
    ELSE 3

(***************************************************************************)
(* C1.  Whatever the options, the event fields and the scope, the object   *)
(* on_event writes is a well-formed JSON object: one comma between each    *)
(* two adjacent members, none after the opening brace, none before the     *)
(* closing one.                                                            *)
(***************************************************************************)
C1_CommaJoined ==
    written # <<>> =>
        LET b == Body(written)
            top == ObjectAt(b, 1)
        IN  /\ top.end = Len(b)
            /\ Len(top.members) >= 1
            /\ b[2] # 44
            /\ b[Len(b) - 1] # 44
            /\ \A i \in 1..(Len(top.members) - 1) :
                  /\ b[top.members[i].to + 1] = 44
                  /\ b[top.members[i].to + 2] = 34

\* no timestamp, flattened, no event field, no target, inside a span
C1_Witness ==
    /\ written # <<>>
    /\ ~layer.timer
    /\ layer.flatten_event
    /\ ~layer.display_target
    /\ event_in.fields = <<>>
    /\ registry # <<>>

(***************************************************************************)
(* C2.  The members of a record appear in the order timestamp, level,      *)
(* fields (or the flattened event fields), target, filename, line_number,  *)
(* threadId, threadName, span, spans.                                      *)
(***************************************************************************)
C2_MemberOrder ==
    written # <<>> =>
        LET ms == Top(written).members
        IN  \A i \in 1..(Len(ms) - 1) :
               \/ Place(ms[i].key) < Place(ms[i + 1].key)
               \/ /\ Place(ms[i].key) = 3
                  /\ Place(ms[i + 1].key) = 3
                  /\ layer.flatten_event
                  /\ ms[i].key # K_fields
                  /\ ms[i + 1].key # K_fields

\* a record with all ten members
C2_Witness ==
    /\ written # <<>>
    /\ Len(Top(written).members) = 10

(***************************************************************************)
(* C6.  `span` and `spans` are members of a record exactly when the event  *)
(* is emitted inside a span; never one without the other.                  *)
(***************************************************************************)
C6_SpanKeysIffScope ==
    written # <<>> =>
        LET ms == Top(written).members
        IN  /\ HasKey(ms, K_span) <=> registry # <<>>
            /\ HasKey(ms, K_spans) <=> registry # <<>>

\* the second event of a run, emitted outside any span
C6_Witness ==
    /\ written # <<>>
    /\ registry = <<>>
    /\ events = 2

(***************************************************************************)
(* C7.  Flattened, a record has no `fields` member and the event fields    *)
(* are the top-level members that follow `level`, span and spans being     *)
(* written as usual; nested, the event fields are the members of `fields`  *)
(* and none of them is a top-level member.                                 *)
(***************************************************************************)
C7_FlattenOrNest ==
    written # <<>> =>
        LET b  == Body(written)
            ms == Top(written).members
            fs == event_in.fields
            li == IndexOfKey(ms, K_level)
        IN  /\ li # 0
            /\ IF layer.flatten_event
               THEN /\ ~HasKey(ms, K_fields)
                    /\ Len(ms) >= li + Len(fs)
                    /\ \A i \in 1..Len(fs) :
                          /\ ms[li + i].key = fs[i].name
                          /\ ValueIsField(b, ms[li + i], fs[i])
                    /\ HasKey(ms, K_span) <=> registry # <<>>
                    /\ HasKey(ms, K_spans) <=> registry # <<>>
               ELSE /\ Len(ms) > li
                    /\ ms[li + 1].key = K_fields
                    /\ LET nested == ObjectAt(b, ms[li + 1].from)
                       IN  /\ nested.end = ms[li + 1].to
                           /\ Len(nested.members) = Len(fs)
                           /\ \A i \in 1..Len(fs) :
                                 /\ nested.members[i].key = fs[i].name
                                 /\ ValueIsField(b, nested.members[i], fs[i])
                    /\ \A i \in 1..Len(fs) : ~HasKey(ms, fs[i].name)

\* flattened, with several event fields, inside a span
C7_Witness ==
    /\ written # <<>>
    /\ layer.flatten_event
    /\ Len(event_in.fields) >= 2
    /\ registry # <<>>

(***************************************************************************)
(* C3.  Each on_event takes one writer from the sink and hands it one      *)
(* write, whose bytes are one complete object followed by one line feed;   *)
(* after N events the sink has seen N writers and N writes.                *)
(***************************************************************************)
C3_OneWritePerEvent ==
    /\ made = events
    /\ writes = events
    /\ event_in # NoEvent => written # <<>>
    /\ written # <<>> =>
          /\ written[Len(written)] = 10
          /\ Top(written).end = Len(written) - 1
          /\ \A i \in 1..(Len(written) - 1) : written[i] # 10

\* the second event of a run has just been written
C3_Witness ==
    /\ events = 2
    /\ writes = 2
    /\ made = 2
    /\ written # <<>>

(***************************************************************************)
(* C4.  The fragment of a span is empty exactly when no field has been     *)
(* recorded on the span, and a fragment that is not empty neither begins   *)
(* nor ends with a comma.                                                  *)
(***************************************************************************)
C4_FragmentShape ==
    \A i \in 1..Len(registry) :
        LET f == registry[i].fields
        IN  /\ f = <<>> <=> registry[i].recorded = <<>>
            /\ f # <<>> => f[1] # 44 /\ f[Len(f)] # 44

\* a span created without fields on which on_record then recorded one
C4_Witness ==
    \E i \in 1..Len(registry) :
        /\ registry[i].nrec = 1
        /\ Len(registry[i].recorded) = 1
        /\ registry[i].fields # <<>>

\* the object b[from..to] is {"name": the name of span, then its fragment}
IsSpanObject(b, from, to, span) ==
    LET o == ObjectAt(b, from)
    IN  /\ o.end = to
        /\ Len(o.members) >= 1
        /\ o.members[1].key = K_name
        /\ StringValue(b, o.members[1].from, o.members[1].to) = [ok |-> TRUE, s |-> span.name]
        /\ IF span.fields = <<>>
           THEN Len(o.members) = 1
           ELSE /\ Len(o.members) > 1
                /\ SubSeq(b, o.members[1].to + 2, to - 1) = span.fields

(***************************************************************************)
(* C5.  Inside n >= 1 spans, `span` is the object of the innermost span    *)
(* (its name, then its fragment) and `spans` is an array of n such         *)
(* objects, the k-th being that of the k-th span counted from the root.    *)
(***************************************************************************)
C5_SpanAndSpans ==
    (written # <<>> /\ registry # <<>>) =>
        LET b  == Body(written)
            ms == Top(written).members
            si == IndexOfKey(ms, K_span)
            ai == IndexOfKey(ms, K_spans)
        IN  /\ si # 0
            /\ ai # 0
            /\ IsSpanObject(b, ms[si].from, ms[si].to, registry[Len(registry)])
            /\ LET arr == ArrayAt(b, ms[ai].from)
               IN  /\ arr.end = ms[ai].to
                   /\ Len(arr.elements) = Len(registry)
                   /\ \A k \in 1..Len(registry) :
                         IsSpanObject(b, arr.elements[k].from, arr.elements[k].to, registry[k])

\* outer{req="r1"} encloses inner{step=2}, and an event has been written
C5_Witness ==
    /\ written # <<>>
    /\ Len(registry) = 2
    /\ registry[1].name = <<111, 117, 116, 101, 114>>
    /\ registry[1].fields = <<34, 114, 101, 113, 34, 58, 34, 114, 49, 34>>
    /\ registry[2].name = <<105, 110, 110, 101, 114>>
    /\ registry[2].fields = <<34, 115, 116, 101, 112, 34, 58, 50>>

(***************************************************************************)
(* C10.  An on_event whose write fails returns normally, changes neither   *)
(* a fragment nor an option, and offers its record once; every on_event    *)
(* after a failed write still writes a complete record.                    *)
(***************************************************************************)
C10_SinkFailureSwallowed ==
    [][ (events' = events + 1 /\ (~last_ok' \/ failures > 0)) =>
           /\ outcome' = "returned"
           /\ registry' = registry
           /\ layer' = layer
           /\ installed' = installed
           /\ made' = made + 1
           /\ writes' = writes + 1
           /\ written' # <<>>
           /\ Top(written').end = Len(written') - 1 ]_vars

\* the first write failed; the second event was written all the same
C10_Witness ==
    /\ events = 2
    /\ failures = 1
    /\ last_ok
    /\ outcome = "returned"
    /\ written # <<>>

(***************************************************************************)
(* C8.  For every string s, the text val_str(s) writes is a JSON string    *)
(* that the JSON unescaping rules decode to exactly s.                     *)
(***************************************************************************)
C8_ValStrRoundTrip ==
    esc_op = "val_str" =>
        StringValue(esc_out, 1, Len(esc_out)) = [ok |-> TRUE, s |-> esc_in]

\* val_str of a backslash followed by the control character 0x01
C8_Witness ==
    /\ esc_op = "val_str"
    /\ esc_in = <<92, 1>>
    /\ esc_out = <<34, 92, 92, 92, 117, 48, 48, 48, 49, 34>>

\* the lowercase hex digit of a nibble
LowerHex(n) == IF n < 10 THEN 48 + n ELSE 87 + n

\* the image of one byte, as the table of C9 gives it
ByteImage(b) ==
    IF b = 34 THEN <<92, 34>>
    ELSE IF b = 92 THEN <<92, 92>>
    ELSE IF b = 8 THEN <<92, 98>>
    ELSE IF b = 12 THEN <<92, 102>>
    ELSE IF b = 10 THEN <<92, 110>>
    ELSE IF b = 13 THEN <<92, 114>>
    ELSE IF b = 9 THEN <<92, 116>>
    ELSE IF b < 32 THEN <<92, 117, 48, 48, LowerHex(b \div 16), LowerHex(b % 16)>>
    ELSE <<b>>

(***************************************************************************)
(* C9.  What escape_json_into appends to the buffer is the concatenation,  *)
(* in order, of the images of the bytes of its input: the seven two-byte   *)
(* escapes, \u00XX in lowercase hex for the other bytes below 0x20, and    *)
(* the byte itself for every other byte.                                   *)
(***************************************************************************)
C9_PerByteImages ==
    esc_op = "escape_json_into" =>
        esc_out = EscapeBuf \o Flatten([i \in 1..Len(esc_in) |-> ByteImage(esc_in[i])])

\* escape_json_into of 0x1f followed by e-acute
C9_Witness ==
    /\ esc_op = "escape_json_into"
    /\ esc_in = <<31, 195, 169>>
    /\ esc_out = <<34, 92, 117, 48, 48, 49, 102, 195, 169>>

IsLeap(y) == (y % 4 = 0 /\ y % 100 # 0) \/ y % 400 = 0

DaysInMonth(y, m) ==
    IF m = 2 THEN (IF IsLeap(y) THEN 29 ELSE 28)
    ELSE IF m \in {4, 6, 9, 11} THEN 30
    ELSE 31

\* the leap years among the years 1..y-1
LeapsBefore(y) == ((y - 1) \div 4) - ((y - 1) \div 100) + ((y - 1) \div 400)

DaysBeforeYear(y) == 365 * (y - 1970) + LeapsBefore(y) - LeapsBefore(1970)

RECURSIVE DaysBeforeMonth(_, _)
DaysBeforeMonth(y, m) ==
    IF m <= 1 THEN 0 ELSE DaysBeforeMonth(y, m - 1) + DaysInMonth(y, m - 1)

\* (y, m, d) is a date of the calendar and it is day `days`
IsDateOf(days, y, m, d) ==
    /\ y >= 1970
    /\ m \in 1..12
    /\ d \in 1..DaysInMonth(y, m)
    /\ DaysBeforeYear(y) + DaysBeforeMonth(y, m) + (d - 1) = days

(***************************************************************************)
(* C12.  days_to_ymd and secs_to_datetime return the date and the time of  *)
(* day that the reference calendar gives; second 0 is 1970-01-01T00:00:00  *)
(* and second 1771588800 is 2026-02-20T12:00:00.                           *)
(***************************************************************************)
C12_CalendarAgrees ==
    /\ cal_op = "days_to_ymd" =>
          /\ Len(cal_out) = 3
          /\ IsDateOf(cal_days, cal_out[1], cal_out[2], cal_out[3])
    /\ cal_op = "secs_to_datetime" =>
          /\ Len(cal_out) = 6
          /\ IsDateOf(cal_days, cal_out[1], cal_out[2], cal_out[3])
          /\ cal_out[4] \in 0..23
          /\ cal_out[5] \in 0..59
          /\ cal_out[6] \in 0..59
          /\ cal_out[4] * 3600 + cal_out[5] * 60 + cal_out[6] = cal_time.tod
          /\ SecsOf(cal_days, cal_time.tod) = 0 => cal_out = <<1970, 1, 1, 0, 0, 0>>
          /\ SecsOf(cal_days, cal_time.tod) = 1771588800
                => cal_out = <<2026, 2, 20, 12, 0, 0>>

\* secs_to_datetime(1771588800) has returned
C12_Witness ==
    /\ cal_op = "secs_to_datetime"
    /\ cal_days = 20504
    /\ cal_time.tod = 43200
    /\ cal_out = <<2026, 2, 20, 12, 0, 0>>

C14_FloatNullOrNumber ==
    val_op = "val_f64" =>
        IF val_in.num.class \in {"nan", "inf"}
        THEN val_out = <<110, 117, 108, 108>>
        ELSE /\ val_out # <<110, 117, 108, 108>>
             /\ val_out # <<>>
             /\ NumberEnd(val_out, 1) = Len(val_out)

\* val_f64(-0.0) has written -0.0
C14_Witness ==
    /\ val_op = "val_f64"
    /\ val_in.num = [class |-> "finite", neg |-> TRUE, int |-> 0, frac |-> <<>>]
    /\ val_out = <<45, 48, 46, 48>>

\* the limbs (base 10000, most significant first) of a string of digits
RECURSIVE LimbsOfDigits(_)
LimbsOfDigits(d) ==
    IF Len(d) <= 4 THEN <<DigitsValue(d, 1, Len(d), 0)>>
    ELSE Append(LimbsOfDigits(SubSeq(d, 1, Len(d) - 4)),
                DigitsValue(d, Len(d) - 3, Len(d), 0))

\* text is the decimal text of the wide integer x: a minus sign exactly when
\* x is negative, then its digits without a leading zero
IsDecimalOf(text, x) ==
    LET d == IF x.neg THEN Tail(text) ELSE text
    IN  /\ text # <<>>
        /\ x.neg <=> text[1] = 45
        /\ d # <<>>
        /\ \A i \in 1..Len(d) : IsDigit(d[i])
        /\ Len(d) > 1 => d[1] # 48
        /\ LimbsOfDigits(d) = x.limbs

(***************************************************************************)
(* C15.  A u128 or i128 field, u128::MAX and i128::MIN included, is        *)
(* written as a JSON string that holds the decimal text of the value, a    *)
(* minus sign only for a negative one; never as a bare number.             *)
(***************************************************************************)
C15_WideIntegerQuoted ==
    (val_op \in {"new", "continuing"} /\ val_in.kind \in {"u128", "i128"}) =>
        LET b  == <<123>> \o val_out \o <<125>>
            o  == ObjectAt(b, 1)
            ms == o.members
        IN  /\ o.end = Len(b)
            /\ Len(ms) = (IF val_op = "new" THEN 1 ELSE 2)
            /\ ms[Len(ms)].key = val_in.name
            /\ b[ms[Len(ms)].from] = 34
            /\ LET sv == StringValue(b, ms[Len(ms)].from, ms[Len(ms)].to)
               IN  sv.ok /\ IsDecimalOf(sv.s, val_in.num)

\* i128::MIN recorded by a fresh visitor
C15_Witness ==
    /\ val_op = "new"
    /\ val_in.kind = "i128"
    /\ val_out = <<34, 118, 34, 58, 34, 45, 49, 55, 48, 49, 52, 49, 49, 56, 51, 52,
                   54, 48, 52, 54, 57, 50, 51, 49, 55, 51, 49,
                   54, 56, 55, 51, 48, 51, 55, 49, 53, 56, 56,
                   52, 49, 48, 53, 55, 50, 56, 34>>

\* the option that each builder method sets
OwnOption(method) ==
    CASE method = "with_target" -> "display_target"
      [] method = "with_file" -> "display_filename"
      [] method = "with_line_number" -> "display_line_number"
      [] method = "flatten_event" -> "flatten_event"
      [] method = "without_time" -> "timer"
      [] method = "with_timer" -> "timer"
      [] method = "with_thread_ids" -> "display_thread_id"
      [] method = "with_thread_names" -> "display_thread_name"

\* the layer is as JsonLayer::new returned it: no builder method was called
Fresh == ~installed /\ built = NoBuilder

(***************************************************************************)
(* C16.  A fresh layer shows the target and hides the file name and the    *)
(* line number.  A record has `target` iff with_target is true, `filename` *)
(* iff with_file is true and the event has a file, `line_number` iff       *)
(* with_line_number is true and the event has a line.  A builder call sets *)
(* its own option to its argument and leaves every other option as it was. *)
(***************************************************************************)
C16_OptionalMembers ==
    /\ [](/\ Fresh => /\ layer.display_target
                      /\ ~layer.display_filename
                      /\ ~layer.display_line_number
          /\ written # <<>> =>
                LET ms == Top(written).members
                IN  /\ HasKey(ms, K_target) <=> layer.display_target
                    /\ HasKey(ms, K_filename)
                          <=> (layer.display_filename /\ event_in.file.some)
                    /\ HasKey(ms, K_line_number)
                          <=> (layer.display_line_number /\ event_in.line.some))
    /\ [][built'.method # "none" =>
             \A o \in DOMAIN layer :
                layer'[o] = (IF o = OwnOption(built'.method) THEN built'.arg ELSE layer[o])]_vars

\* target hidden, file and line shown, and the event has both
C16_Witness ==
    /\ written # <<>>
    /\ ~layer.display_target
    /\ layer.display_filename
    /\ layer.display_line_number
    /\ event_in.file.some
    /\ event_in.line.some
    /\ HasKey(Top(written).members, K_filename)
    /\ HasKey(Top(written).members, K_line_number)

(***************************************************************************)
(* C17.  A record has `threadId` iff with_thread_ids(true) was set and     *)
(* `threadName` iff with_thread_names(true) was set; a fresh layer has     *)
(* neither, and setting one leaves the other as it was.  Each is a JSON    *)
(* string, threadId of the form ThreadId(...), written after line_number   *)
(* and the members before it, and before span and spans.                   *)
(***************************************************************************)
C17_ThreadMembers ==
    /\ [](/\ Fresh => (~layer.display_thread_id /\ ~layer.display_thread_name)
          /\ written # <<>> =>
                LET b  == Body(written)
                    ms == Top(written).members
                IN  /\ HasKey(ms, K_threadId) <=> layer.display_thread_id
                    /\ HasKey(ms, K_threadName) <=> layer.display_thread_name
                    /\ \A i \in 1..Len(ms) :
                          ms[i].key \in {K_threadId, K_threadName} =>
                             /\ StringValue(b, ms[i].from, ms[i].to).ok
                             /\ \A j \in 1..(i - 1) : Place(ms[j].key) <= 7
                             /\ \A j \in (i + 1)..Len(ms) : Place(ms[j].key) >= 8
                             /\ ms[i].key = K_threadId =>
                                   LET id == StringValue(b, ms[i].from, ms[i].to).s
                                   IN  /\ Len(id) > 10
                                       /\ SubSeq(id, 1, 9)
                                             = <<84, 104, 114, 101, 97, 100, 73, 100, 40>>
                                       /\ id[Len(id)] = 41)
    /\ [][/\ built'.method = "with_thread_ids" =>
                /\ layer'.display_thread_id = built'.arg
                /\ layer'.display_thread_name = layer.display_thread_name
          /\ built'.method = "with_thread_names" =>
                /\ layer'.display_thread_name = built'.arg
                /\ layer'.display_thread_id = layer.display_thread_id]_vars

\* threadId without threadName, in a record written inside a span
C17_Witness ==
    /\ written # <<>>
    /\ layer.display_thread_id
    /\ ~layer.display_thread_name
    /\ layer.display_line_number
    /\ registry # <<>>
    /\ HasKey(Top(written).members, K_threadId)

(***************************************************************************)
(* on_record with nothing to record.                                       *)
(***************************************************************************)
\* the step is an on_record call on the i-th entered span
IsRecordStep(i) ==
    /\ Len(registry') = Len(registry)
    /\ i \in 1..Len(registry)
    /\ registry'[i].nrec = registry[i].nrec + 1

\* C18: an on_record call whose field stream is empty leaves the fragment of
\* the span byte for byte as it was, whether that fragment is empty or not
C18_EmptyRecordNoOp ==
    [][\A i \in 1..Len(registry) :
          (IsRecordStep(i) /\ registry'[i].recorded = registry[i].recorded) =>
              registry'[i].fields = registry[i].fields]_vars

\* on_record was called with an empty stream on a span whose fragment holds
\* the field it was created with
C18_Witness ==
    \E i \in 1..Len(registry) :
        /\ registry[i].nrec = 1
        /\ Len(registry[i].recorded) = 1
        /\ registry[i].recorded[1].name = <<114, 101, 113>>
        /\ registry[i].fields = <<34, 114, 101, 113, 34, 58, 34, 114, 49, 34>>

\* on_record was called with an empty stream on a span whose fragment is empty
C18_WitnessEmpty ==
    \E i \in 1..Len(registry) :
        /\ registry[i].nrec = 1
        /\ registry[i].recorded = <<>>
        /\ registry[i].fields = <<>>

(***************************************************************************)
(* Events after on_record.                                                 *)
(***************************************************************************)
\* the object b[from..to] is {"name": the name of span, then one member for
\* each field recorded on the span so far, in the order they were recorded}
ShowsRecorded(b, from, to, span) ==
    LET o == ObjectAt(b, from)
    IN  /\ o.end = to
        /\ Len(o.members) = 1 + Len(span.recorded)
        /\ o.members[1].key = K_name
        /\ StringValue(b, o.members[1].from, o.members[1].to) = [ok |-> TRUE, s |-> span.name]
        /\ \A k \in 1..Len(span.recorded) :
              /\ o.members[1 + k].key = span.recorded[k].name
              /\ ValueIsField(b, o.members[1 + k], span.recorded[k])

\* C19: the record of an event shows, in `span` and in each element of
\* `spans`, the fields the span was created with followed by the fields
\* on_record has recorded on it before the event, and no other: an event
\* after an on_record shows what it recorded, an event before it does not
C19_EventsShowRecorded ==
    (written # <<>> /\ registry # <<>>) =>
        LET b  == Body(written)
            ms == Top(written).members
            si == IndexOfKey(ms, K_span)
            ai == IndexOfKey(ms, K_spans)
        IN  /\ si # 0
            /\ ai # 0
            /\ ShowsRecorded(b, ms[si].from, ms[si].to, registry[Len(registry)])
            /\ LET arr == ArrayAt(b, ms[ai].from)
               IN  /\ Len(arr.elements) = Len(registry)
                   /\ \A k \in 1..Len(registry) :
                         ShowsRecorded(b, arr.elements[k].from, arr.elements[k].to,
                                       registry[k])

\* an event written inside outer{req="r1"} after step = 2 was recorded on it
C19_Witness ==
    /\ written # <<>>
    /\ registry # <<>>
    /\ LET leaf == registry[Len(registry)]
       IN  /\ leaf.nrec = 1
           /\ Len(leaf.recorded) = 2
           /\ leaf.recorded[1].name = <<114, 101, 113>>
           /\ leaf.recorded[2].name = <<115, 116, 101, 112>>

\* an event written inside a span created with a field, before any on_record
C19_WitnessBefore ==
    /\ written # <<>>
    /\ registry # <<>>
    /\ registry[Len(registry)].nrec = 0
    /\ Len(registry[Len(registry)].recorded) = 1

(***************************************************************************)
(* on_event from several threads.                                          *)
(***************************************************************************)
\* the writes the sink received from thread t
WritesOf(t) == Cardinality({ k \in 1..Len(origin) : origin[k].thread = t })

\* C20: whatever the interleaving of the on_event calls of several threads,
\* each buffer handed to write_all is the complete line of the one event of
\* the call it came from, and each call hands the sink exactly one buffer:
\* a thread outside on_event has made as many writes as calls, a thread
\* inside it one fewer
C20_OneLinePerEvent ==
    /\ Len(sink) = Len(origin)
    /\ writes = Len(sink)
    /\ \A k \in 1..Len(sink) :
          sink[k] = EventLine(layer, origin[k].call.event, origin[k].call.now,
                              ThreadOf(origin[k].thread), event_scope(registry))
    /\ \A t \in 1..NumThreads :
          WritesOf(t) = calls[t] - (IF pc[t] = "idle" THEN 0 ELSE 1)

\* one thread has handed its line to the sink while another, logging a
\* different event, holds a finished line it has not written yet
C20_Witness ==
    \E t \in 1..NumThreads :
        /\ pc[t] = "writer"
        /\ Len(sink) = 1
        /\ origin[1].thread # t
        /\ origin[1].call.event # thread_call[t].event
        /\ calls[origin[1].thread] = 1

(***************************************************************************)
(* on_event and the fragments.                                             *)
(***************************************************************************)
\* the bytes of the value of the top-level member k of the record w
MemberBytes(w, k) ==
    LET ms == Top(w).members
        i  == IndexOfKey(ms, k)
    IN  IF i = 0 THEN <<>> ELSE SubSeq(Body(w), ms[i].from, ms[i].to)

\* the bytes of the `span` and of the `spans` member of the record w
ScopeBytes(w) ==
    LET b  == Body(w)
        ms == ObjectAt(b, 1).members
        i  == IndexOfKey(ms, K_span)
        j  == IndexOfKey(ms, K_spans)
    IN  << IF i = 0 THEN <<>> ELSE SubSeq(b, ms[i].from, ms[i].to),
           IF j = 0 THEN <<>> ELSE SubSeq(b, ms[j].from, ms[j].to) >>

\* C21: on_event leaves the fragment of every entered span byte for byte as
\* it was, and two events written one after the other inside the same spans
\* carry the same `span` and `spans` bytes
C21_EventKeepsFragments ==
    [][events' = events + 1 =>
          /\ Len(registry') = Len(registry)
          /\ \A i \in 1..Len(registry) : registry'[i].fields = registry[i].fields
          /\ (written # <<>> /\ registry # <<>>) =>
                LET before == ScopeBytes(written)
                IN  /\ before[1] # <<>>
                    /\ ScopeBytes(written') = before]_vars

\* two events have been written inside a span whose fragment holds a field
\* it was created with and one recorded later
C21_Witness ==
    /\ events = 2
    /\ written # <<>>
    /\ registry # <<>>
    /\ registry[Len(registry)].nrec = 1
    /\ Len(registry[Len(registry)].recorded) = 2
    /\ registry[Len(registry)].fields # <<>>

(***************************************************************************)
(* val_f64 and the decimal point.                                          *)
(***************************************************************************)
\* text holds a decimal point or an exponent marker
HasPointOrExponent(text) == Contains(text, 46) \/ Contains(text, 101) \/ Contains(text, 69)

\* C22: for a finite f64, what val_f64 writes holds a decimal point or an
\* exponent marker: it is the Display text followed by .0 when that text
\* holds none of `.`, `e`, `E`, and the Display text alone when it does
C22_PointOrExponent ==
    (val_op = "val_f64" /\ val_in.num.class = "finite") =>
        LET natural == DisplayF64(val_in.num)
        IN  /\ HasPointOrExponent(val_out)
            /\ IF HasPointOrExponent(natural)
               THEN val_out = natural
               ELSE val_out = natural \o <<46, 48>>

\* val_f64(100.0) has written 100.0
C22_Witness ==
    /\ val_op = "val_f64"
    /\ val_in.num = [class |-> "finite", neg |-> FALSE, int |-> 100, frac |-> <<>>]
    /\ val_out = <<49, 48, 48, 46, 48>>

\* val_f64(3.14) has written 3.14
C22_WitnessFraction ==
    /\ val_op = "val_f64"
    /\ val_in.num = [class |-> "finite", neg |-> FALSE, int |-> 3, frac |-> <<1, 4>>]
    /\ val_out = <<51, 46, 49, 52>>

(***************************************************************************)
(* The visitor and its commas.                                             *)
(***************************************************************************)
\* the bytes of the JSON value of field f, as the writer's method for its
\* type writes them
ValueBytes(f) ==
    CASE f.kind = "u64"  -> val_u64(<<>>, f.num)
      [] f.kind = "i64"  -> val_i64(<<>>, f.num)
      [] f.kind = "f64"  -> val_f64(<<>>, f.num)
      [] f.kind = "bool" -> val_bool(<<>>, f.flag)
      [] OTHER           -> val_str(<<>>, f.text)

\* the members of fields, the k-th as "name":value, behind a comma unless
\* it is the first and bare says that the first one has none
RECURSIVE MembersOf(_, _)
MembersOf(fields, bare) ==
    IF fields = <<>> THEN <<>>
    ELSE (IF bare THEN <<>> ELSE <<44>>)
           \o <<34>> \o Head(fields).name \o <<34, 58>> \o ValueBytes(Head(fields))
           \o MembersOf(Tail(fields), FALSE)

\* C23: a visitor made by new writes no comma before the first field it
\* records and one before each later field; a visitor made by continuing
\* writes one before every field; each field is written as [comma], key,
\* value; `first` holds only in a visitor made by new that has recorded
\* nothing, and is false for good after any record call
C23_VisitorStateMachine ==
    vis_mode # "none" =>
        /\ visitor.first <=> (vis_mode = "new" /\ vis_log = <<>>)
        /\ vis_mode = "new" => visitor.writer = MembersOf(vis_log, TRUE)
        /\ vis_mode = "continuing" =>
              visitor.writer = FirstMember \o MembersOf(vis_log, FALSE)

\* a visitor made by new has recorded two fields, the first a string
C23_Witness ==
    /\ vis_mode = "new"
    /\ Len(vis_log) = 2
    /\ vis_log[1].kind = "str"
    /\ vis_log[2].kind = "bool"

\* a visitor made by continuing has recorded two fields
C23_WitnessContinuing ==
    /\ vis_mode = "continuing"
    /\ Len(vis_log) = 2

(***************************************************************************)
(* Splicing a fragment.                                                    *)
(***************************************************************************)
\* the object b[from..to] is { "name": a string, then the splice of the
\* fragment of span: nothing when it is empty, a comma and its bytes as
\* they are when it is not }
IsSplice(b, from, to, span) ==
    LET o == ObjectAt(b, from)
    IN  /\ o.end = to
        /\ Len(o.members) >= 1
        /\ o.members[1].key = K_name
        /\ At(b, o.members[1].from) = 34
        /\ SubSeq(b, o.members[1].to + 1, to)
              = (IF span.fields = <<>> THEN <<>> ELSE <<44>> \o span.fields) \o <<125>>
        /\ span.fields = <<>> <=> Len(o.members) = 1

\* C24: in `span` and in every element of `spans`, an empty fragment adds
\* no comma and no byte, so that the object holds `name` alone, and a
\* fragment that is not empty adds one comma after `name` and then its
\* bytes as they are
C24_Splice ==
    (written # <<>> /\ registry # <<>>) =>
        LET b  == Body(written)
            ms == Top(written).members
            si == IndexOfKey(ms, K_span)
            ai == IndexOfKey(ms, K_spans)
        IN  /\ si # 0
            /\ ai # 0
            /\ IsSplice(b, ms[si].from, ms[si].to, registry[Len(registry)])
            /\ LET arr == ArrayAt(b, ms[ai].from)
               IN  /\ Len(arr.elements) = Len(registry)
                   /\ \A k \in 1..Len(registry) :
                         IsSplice(b, arr.elements[k].from, arr.elements[k].to, registry[k])

\* an event written inside a span with a fragment that encloses a span
\* whose fragment is empty
C24_Witness ==
    /\ written # <<>>
    /\ Len(registry) = 2
    /\ registry[1].fields # <<>>
    /\ registry[2].fields = <<>>

(***************************************************************************)
(* Fragments only grow.                                                    *)
(***************************************************************************)
IsPrefix(p, q) == Len(p) <= Len(q) /\ SubSeq(q, 1, Len(p)) = p

\* C25: the fragment a span has before an on_record call is a prefix, byte
\* for byte, of the fragment it has after it: on_record only appends, the
\* length never decreases and no byte already written changes
C25_AppendOnly ==
    [][\A i \in 1..Len(registry) :
          IsRecordStep(i) => IsPrefix(registry[i].fields, registry'[i].fields)]_vars

\* a span created with a field on which on_record has recorded a field twice
C25_Witness ==
    \E i \in 1..Len(registry) :
        /\ registry[i].nrec = 2
        /\ Len(registry[i].recorded) = 3
        /\ registry[i].fields =
              <<34, 114, 101, 113, 34, 58, 34, 114, 49, 34>>
                \o <<44, 34, 115, 116, 101, 112, 34, 58, 50>>
                \o <<44, 34, 115, 116, 101, 112, 34, 58, 50>>

(***************************************************************************)
(* Escaping in pieces.                                                     *)
(***************************************************************************)
\* C26: escaping a text piece by piece into one buffer gives the bytes that
\* escaping the whole text at once gives: whatever the pieces in which
\* Debug or Display writes it, val_debug and val_display write what val_str
\* writes for the whole text
C26_ChunkIndependent ==
    esc_op \in {"val_debug", "val_display"} =>
        /\ esc_out = val_str(JsonWriter_new, esc_in)
        /\ LET a == SubSeq(esc_in, 1, esc_cuts[1])
               b == SubSeq(esc_in, esc_cuts[1] + 1, Len(esc_in))
           IN  escape_json_into(b, escape_json_into(a, EscapeBuf))
                 = escape_json_into(esc_in, EscapeBuf)

\* val_debug of a quote followed by a line feed, written as the quote, then
\* the line feed, then nothing
C26_Witness ==
    /\ esc_op = "val_debug"
    /\ esc_in = <<34, 10>>
    /\ esc_cuts = <<1, 2>>
    /\ esc_out = <<34, 92, 34, 92, 110, 34>>

(***************************************************************************)
(* `span` and the last element of `spans`.                                 *)
(***************************************************************************)
\* the bytes of the last element of the array `spans` of the record w
LastOfSpans(w) ==
    LET ms == Top(w).members
        i  == IndexOfKey(ms, K_spans)
    IN  IF i = 0 THEN <<>>
        ELSE LET arr == ArrayAt(Body(w), ms[i].from)
             IN  IF arr.elements = <<>> THEN <<>>
                 ELSE SubSeq(Body(w), arr.elements[Len(arr.elements)].from,
                             arr.elements[Len(arr.elements)].to)

\* C27: in a record written inside spans, the `span` object is byte for
\* byte the last element of `spans`, whatever on_record calls other threads
\* make on the innermost span while on_event runs
C27_SpanIsLastOfSpans ==
    (written # <<>> /\ registry # <<>>) =>
        /\ MemberBytes(written, K_span) # <<>>
        /\ MemberBytes(written, K_span) = LastOfSpans(written)

(***************************************************************************)
(* One line per event, whatever the strings.                               *)
(***************************************************************************)
\* the member with key k of the object b[from..to] is the JSON string of s
MemberIsString(b, from, k, s) ==
    LET ms == ObjectAt(b, from).members
        i  == IndexOfKey(ms, k)
    IN  /\ i # 0
        /\ StringValue(b, ms[i].from, ms[i].to) = [ok |-> TRUE, s |-> s]

\* C28: with keys that are identifiers, the line of an event holds one
\* line feed, its last byte, and no other control byte, whatever string
\* the target, the file name, the event fields, the span name and the span
\* field carry; the line is one JSON object in which each of them reads
\* back as that string, so none of them closes its JSON string early
C28_OneLineFeed ==
    (esc_op = "on_event" /\ written # <<>>) =>
        LET b   == Body(written)
            ms  == Top(written).members
            fi  == IndexOfKey(ms, K_fields)
            si  == IndexOfKey(ms, K_span)
        IN  /\ written[Len(written)] = 10
            /\ \A i \in 1..(Len(written) - 1) : written[i] >= 32
            /\ Top(written).end = Len(b)
            /\ MemberIsString(b, 1, K_target, esc_in)
            /\ MemberIsString(b, 1, K_filename, esc_in)
            /\ fi # 0
            /\ MemberIsString(b, ms[fi].from, <<115>>, esc_in)
            /\ MemberIsString(b, ms[fi].from, <<100>>, esc_in)
            /\ MemberIsString(b, ms[fi].from, <<101>>, esc_in)
            /\ registry # <<>> =>
                  /\ si # 0
                  /\ MemberIsString(b, ms[si].from, K_name, esc_in)
                  /\ MemberIsString(b, ms[si].from, <<107>>, esc_in)

\* the line of an event that carries a quote followed by a line feed,
\* written inside a span that carries them too
C28_Witness ==
    /\ esc_op = "on_event"
    /\ written # <<>>
    /\ esc_in = <<34, 10>>
    /\ registry # <<>>

(***************************************************************************)
(* The members of a fragment.                                              *)
(***************************************************************************)
\* C29: the fragment of a span, put between braces, is an object with one
\* member for each field recorded on the span since it was created, in the
\* order they were recorded, each with its key and its value: no field is
\* dropped or merged, and a name recorded twice gives two members
C29_FragmentMembers ==
    \A i \in 1..Len(registry) :
        LET b  == <<123>> \o registry[i].fields \o <<125>>
            o  == ObjectAt(b, 1)
            fs == registry[i].recorded
        IN  /\ o.end = Len(b)
            /\ Len(o.members) = Len(fs)
            /\ \A k \in 1..Len(fs) :
                  /\ o.members[k].key = fs[k].name
                  /\ ValueIsField(b, o.members[k], fs[k])

\* step has been recorded twice on a span created without fields
C29_Witness ==
    \E i \in 1..Len(registry) :
        /\ registry[i].nrec = 2
        /\ Len(registry[i].recorded) = 2
        /\ registry[i].recorded[1].name = registry[i].recorded[2].name
        /\ registry[i].fields =
              <<34, 115, 116, 101, 112, 34, 58, 50, 44, 34, 115, 116, 101, 112, 34, 58, 50>>

(***************************************************************************)
(* The arithmetic of days_to_ymd.                                          *)
(***************************************************************************)
\* the date after y-m-d in the reference calendar
NextDate(y, m, d) ==
    IF d < DaysInMonth(y, m) THEN <<y, m, d + 1>>
    ELSE IF m < 12 THEN <<y, m + 1, 1>>
    ELSE <<y + 1, 1, 1>>

\* C30: for every day count of the range, no unsigned subtraction of
\* days_to_ymd goes below zero, the month it returns lies in 1..12 and the
\* day in 1..the length of that month in that year, and the next day count
\* gives the next date of the calendar; for every second count, hour < 24,
\* minute < 60 and second < 60
C30_NoUnderflowInRange ==
    /\ cal_op = "days_to_ymd" =>
          LET subs == days_to_ymd_subtractions(cal_days)
          IN  /\ \A i \in 1..Len(subs) : subs[i][1] >= subs[i][2]
              /\ Len(cal_out) = 3
              /\ cal_out[3] = subs[5][1] - subs[5][2] + 1
              /\ cal_out[2] >= 1
              /\ cal_out[2] <= 12
              /\ cal_out[3] >= 1
              /\ cal_out[3] <= DaysInMonth(cal_out[1], cal_out[2])
              /\ days_to_ymd(cal_days + 1) = NextDate(cal_out[1], cal_out[2], cal_out[3])
    /\ cal_op = "secs_to_datetime" =>
          /\ Len(cal_out) = 6
          /\ cal_out[2] >= 1
          /\ cal_out[2] <= 12
          /\ cal_out[3] >= 1
          /\ cal_out[3] <= DaysInMonth(cal_out[1], cal_out[2])
          /\ cal_out[4] >= 0 /\ cal_out[4] < 24
          /\ cal_out[5] >= 0 /\ cal_out[5] < 60
          /\ cal_out[6] >= 0 /\ cal_out[6] < 60

\* days_to_ymd(11016) has returned 2000-02-29, a day for which mp - 9 is
\* evaluated
C30_Witness ==
    /\ cal_op = "days_to_ymd"
    /\ cal_days = 11016
    /\ cal_out = <<2000, 2, 29>>
    /\ Len(days_to_ymd_subtractions(cal_days)) = 6

===============================================================================
